---- MODULE Spec2Model ----
(***************************************************************************)
(* Model of the bfkmd command line tools:                                  *)
(*   - bufdn: the download pipeline  generator -> 3 fetchers -> persister  *)
(*     -> reporter, connected by bounded channels (src/bin/bufdn/*.rs);    *)
(*   - bkam fix / purge and the archive operations they drive              *)
(*     (src/bin/bkam/fix.rs, src/bin/bkam/purge.rs).                       *)
(* Times are whole hours since an arbitrary 00Z epoch.                     *)
(***************************************************************************)
EXTENDS Integers, Sequences, FiniteSets, Bags, TLC

----------------------------------------------------------------------------
(* Program constants *)

\* main.rs:37  const CAPACITY: usize = 16
CAPACITY == 16

\* download.rs:62  for _ in 0..3
NumFetchers == 3

\* main.rs:57  Duration::hours(27)
TOO_OLD_HOURS == 27

\* generator.rs:181  .take(1_500)
TAKE_LIMIT == 1500

----------------------------------------------------------------------------
(* Bounds of the model *)

\* largest number of download-list entries of one run that are not archived yet
MaxReqs == 3

\* number of distinct payloads upstream serves while bkam fix and purge run
NumPayloads == 2

----------------------------------------------------------------------------
(* Values *)

\* the site ids of the model, as typed in either letter case
SiteIds ==
  {"kmso", "KMSO", "kldn", "KLDN", "kdln", "KDLN", "kmpi", "KMPI", "bon",
   "BON"}

\* str::to_lowercase
Lower ==
  [s \in SiteIds |->
     CASE s \in {"kmso", "KMSO"} -> "kmso"
       [] s \in {"kldn", "KLDN"} -> "kldn"
       [] s \in {"kdln", "KDLN"} -> "kdln"
       [] s \in {"kmpi", "KMPI"} -> "kmpi"
       [] OTHER -> "bon"]

\* the upper case form of an id, as the archive stores it
Upper ==
  [s \in SiteIds |->
     CASE s \in {"kmso", "KMSO"} -> "KMSO"
       [] s \in {"kldn", "KLDN"} -> "KLDN"
       [] s \in {"kdln", "KDLN"} -> "KDLN"
       [] s \in {"kmpi", "KMPI"} -> "KMPI"
       [] OTHER -> "BON"]

\* hours between runs of a model (bufkit_data::Model::hours_between_runs)
HoursBetweenRuns(model) ==
  CASE model = "GFS" -> 6
    [] model = "NAM" -> 6
    [] OTHER -> 1

\* Model::iter(): the models in declaration order
AllModels == <<"GFS", "NAM", "NAM4KM">>

\* the station number written in the payloads upstream serves for a site id
StationInFile(site_id) ==
  CASE Upper[site_id] = "KMSO" -> 727730
    [] OTHER -> 727570

\* the content-addressed name of a payload in the blob store
BlobName(content) == <<"sha", content>>

\* an index row of the archive
FileRow(stn, model, init_time, content) ==
  [stn |-> stn, model |-> model, init_time |-> init_time,
   hash |-> BlobName(content)]

NoUrl == [site |-> "", model |-> "", init |-> 0, remote |-> ""]

NoReq ==
  [site_id |-> "", stn |-> {}, model |-> "", init_time |-> 0, url |-> NoUrl]

NoBody == [valid |-> FALSE, stn |-> 0, init |-> 0, content |-> 0]

NoMsg == [kind |-> "None", req |-> NoReq, body |-> NoBody]

Msg(kind, req) == [kind |-> kind, req |-> req, body |-> NoBody]

----------------------------------------------------------------------------
(* Inputs of a run of bufdn *)

\* --sites as typed; <<>> selects the auto-download list
SiteLists == {<<>>, <<"kmso">>, <<"kmso", "KMSO">>}

\* --models
InModels == <<"GFS">>

\* the choices of --start and --end, hours since 2021-03-20T00Z
Windows == {[start |-> 72, end |-> 72], [start |-> 72, end |-> 78]}

\* the clock of the reporter when it starts: run 72 is 27 hours old
NowChoices == {99}

\* the archive a run may find: empty, or holding two GFS runs of KMSO
ArchivePresets ==
  { [files |-> {}, blobs |-> {}, ids |-> {}, autoDl |-> EmptyBag],
    [files |-> {FileRow(727730, "GFS", 72, 72), FileRow(727730, "GFS", 78, 78)},
     blobs |-> {BlobName(72), BlobName(78)},
     ids |-> {[site |-> "KMSO", model |-> "GFS", stn |-> 727730, mr |-> 78]},
     autoDl |-> SetToBag({727730})] }

\* an archive that knows KMPI, holds its GFS run 60 and downloads it by itself
KmpiArchive ==
  [files |-> {FileRow(727570, "GFS", 60, 60)},
   blobs |-> {BlobName(60)},
   ids |-> {[site |-> "KMPI", model |-> "GFS", stn |-> 727570, mr |-> 60]},
   autoDl |-> SetToBag({727570})]

\* an archive in which the id KMSO is bound to the station of another site
MovedArchive ==
  [files |-> {FileRow(727570, "GFS", 78, 78)},
   blobs |-> {BlobName(78)},
   ids |-> {[site |-> "KMSO", model |-> "GFS", stn |-> 727570, mr |-> 78]},
   autoDl |-> EmptyBag]

\* one invocation: the archive and MissingUrlDb it finds, and its arguments
Invocation(archive, db, sites, models, start, end) ==
  [archive |-> archive, missing |-> db, sites |-> sites, models |-> models,
   start |-> start, end |-> end]

\* invocations that reach the rule set of the source adapter, a site typed
\* twice, an id bound to another station, a run after one that recorded a
\* missing url, and the run for which upstream may serve an older file
CornerRuns ==
  LET empty == [files |-> {}, blobs |-> {}, ids |-> {}, autoDl |-> EmptyBag]
      seen  == [site |-> "kmso", model |-> "GFS", init |-> 72,
                remote |-> "gfs3"]
  IN  { Invocation(empty, {}, <<"kmso", "KMSO">>, <<"GFS">>, -89544, -89544),
        Invocation(empty, {}, <<"KMPI">>, <<"GFS", "NAM">>, 66, 66),
        Invocation(empty, {}, <<"kmpi", "bon", "kmso">>, <<"GFS">>, 66, 66),
        Invocation(KmpiArchive, {}, <<>>, <<"GFS">>, 60, 66),
        Invocation(MovedArchive, {}, <<"kmso">>, <<"GFS">>, 72, 72),
        Invocation(empty, {seen}, <<"kmso">>, <<"GFS">>, 72, 72),
        Invocation(empty, {}, <<"kmso">>, <<"GFS">>, 84, 84) }

\* the invocations of the model
Invocations ==
  { Invocation(archive, {}, sites, InModels, w.start, w.end) :
      archive \in ArchivePresets, sites \in SiteLists, w \in Windows }
    \cup CornerRuns

VARIABLES
  inSites,    \* --sites
  inModels,   \* --models
  inStart,    \* --start
  inEnd,      \* --end
  now,        \* Utc::now() of the reporter
  mainPc,     \* main thread: start, open404, loop, or a state of Ended
  genPc,      \* generator thread: off, open, build, run, done, failed, panicked
  todo,       \* download list still to be looked at by the generator
  taken,      \* requests that passed the filters (iterator take)
  dlq,        \* channel generator -> fetchers
  inflight,   \* fetcher threads: the bag of results they are about to send
  fDone,      \* fetcher threads: how many have ended
  fPanicked,  \* fetcher threads: how many have panicked
  saveq,      \* channel fetchers -> persister
  persPc,     \* persister thread: off, connect, loop, done, failed, panicked
  printq,     \* channel persister -> reporter
  missing,    \* MissingUrlDb: table missing(url PRIMARY KEY)
  files,      \* archive index: table files
  blobs,      \* blob store: names of the files in data/
  ids,        \* archive index: table ids
  autoDl,     \* AutoDownloadListDb
  emitted,    \* history: requests sent by the generator, in order
  started,    \* history: requests pulled by the fetchers, in order
  handled,    \* history: [in, out] of each message of the persister, in order
  files0,     \* history: the index when bufdn, or bkam fix, started
  missing0,   \* history: MissingUrlDb when the run started
  reported,   \* history: results received by the reporter, in order
  fixPc,      \* bkam fix: off, start, index, data, done
  idxWorker,  \* clean_index: [pc, left, sent] of its worker and its channel
  dataWorker, \* clean_data: [pc, left, sent] of its worker and its channel
  adding,     \* Archive::add between its blob write and its commit: the body
  blobs0,     \* history: the blob store when bufdn, or bkam fix, started
  intact,     \* history: every row had its blob when the run started
  quiet,      \* history: no other operation ran since bkam fix started
  autoCall,   \* history: the last call of add_site or remove_site
  climoIn,    \* bufcli: the site, the model and the archive of the build
  fire,       \* climatology store: table fire
  locations,  \* climatology store: table locations
  inventory,  \* climatology store: table inventory
  maxRows,    \* climatology store: table max
  climoPc,    \* build_climo: off, idle, run, done, failed
  climoTodo,  \* build_climo: the analyses its loop has still to visit
  climoCur,   \* build_climo: its local variables
  builds,     \* history: number of builds started
  store0,     \* history: the store when the last build started
  fireLog,    \* history: what the last build wrote for each analysis
  climoArch,  \* bufcli: the init times of the files in the archive index
  csExists,   \* climatology store: climo.db and its tables were created
  stage,      \* builder.rs: [pc, out] of each thread, out its pending sends
  chan,       \* builder.rs: the content of each channel
  monitor,    \* builder.rs: the loop of build_climo and its local variables
  csLog,      \* history: the changes of the store by the last build, in order
  summary,    \* calc_fire_summary: [pc, month, day, to_return]
  root,       \* bkam create: the directory tree at the archive root
  createCall, \* history: the last call of bkam create, and how many were made
  exportIn,   \* bkam export: the archive and the arguments
  exportRun   \* bkam export: [pc, todo, saved]

vars ==
  <<inSites, inModels, inStart, inEnd, now, mainPc, genPc, todo, taken, dlq, inflight,
    fDone, fPanicked, saveq, persPc, printq, missing, files, blobs, ids,
    autoDl, emitted, started, handled, files0, missing0, reported, fixPc,
    idxWorker, dataWorker, adding, blobs0, intact, quiet, autoCall, climoIn,
    fire, locations, inventory, maxRows, climoPc, climoTodo, climoCur, builds,
    store0, fireLog, climoArch, csExists, stage, chan, monitor, csLog,
    summary, root, createCall, exportIn, exportRun>>

----------------------------------------------------------------------------
(* Source adapter: sources.rs *)

\* 2021-03-22T18Z, sources.rs:89
KldnGfsRename == 66

\* 2020-05-01T00Z, sources.rs:84
KldnNamRename == -7752

\* 2011-01-01T00Z, sources.rs:113
FirstRun == -89544

\* 2013-03-25T00Z, sources.rs:112
FirstNam4kmRun == -70008

RemoteModel(model, hour) ==
  CASE model = "GFS" -> "gfs3"
    [] model = "NAM" /\ hour \in {6, 18} -> "namm"
    [] model = "NAM" -> "nam"
    [] OTHER -> "nam4km"

BuildUrl(site, model, init_time) ==
  [site |-> Lower[site], model |-> model, init |-> init_time,
   remote |-> RemoteModel(model, init_time % 24)]

FixKnownIssues(site_id, model, init_time) ==
  IF site_id = "KLDN" /\ model # "GFS" /\ init_time >= KldnNamRename
    THEN "KDLN"
    ELSE IF site_id = "KLDN" /\ model = "GFS" /\ init_time >= KldnGfsRename
           THEN "KDLN"
           ELSE site_id

\* 2018-12-05T00Z, sources.rs:117
GfsExpired == -20064

\* 2018-12-04T12Z, sources.rs:119
GfsStarted == -20076

\* 2012-02-17T12Z, sources.rs:130
NamSparseBefore == -79644

\* 2012-02-16T18Z, sources.rs:147
GfsSparseBefore == -79662

\* 2021-03-22T18Z, sources.rs:126
KmpiGfsEnded == 66

\* sources.rs:100-109: the model is never run for the site
ModelSiteMismatch(site, model) ==
  CASE site \in {"bam", "c17", "lrr", "s06", "ssy", "xkza", "xxpn"} ->
         model \in {"NAM", "NAM4KM"}
    [] site \in {"bon", "hmm", "mrp", "smb", "win"} -> model = "GFS"
    [] site = "wntr" -> model \in {"GFS", "NAM4KM"}
    [] site = "kfca" -> model \in {"NAM", "NAM4KM"}
    [] site \in {"paeg", "pabt", "pafa", "pafm", "pamc", "pfyu"} ->
         model = "NAM4KM"
    [] OTHER -> FALSE

\* sources.rs:111-114: the run is older than the first run of the model
ModelInitTimeMismatch(model, init_time) ==
  IF model = "NAM4KM" THEN init_time < FirstNam4kmRun
                      ELSE init_time < FirstRun

\* sources.rs:116-161: the site has ended, or had not started, at the run
ExpiredSites(site, model, init_time) ==
  CASE site \in {"lrr", "c17"} /\ model = "GFS" -> init_time >= GfsExpired
    [] site \in {"sta", "xxpn", "wev", "xkza", "mpi"} /\ model = "GFS" ->
         init_time <= GfsStarted
    [] site = "kmpi" /\ model = "GFS" ->
         init_time <= GfsStarted \/ init_time >= KmpiGfsEnded
    [] site \in {"pafm", "pfyu", "pabt", "wev", "wntr", "smb", "hmm", "sta",
                 "mpi", "wja", "mrp", "pamc", "pafa", "paeg", "cype", "cyyc",
                 "cwlb"} /\ model = "NAM" -> init_time < NamSparseBefore
    [] site \in {"ssy", "cwlb", "bam", "cyyc", "paeg", "cype", "pfyu", "pafa",
                 "pamc", "pabt", "wja", "pafm"} /\ model = "GFS" ->
         init_time < GfsSparseBefore
    [] OTHER -> FALSE

\* mutant of InvalidCombination: the id is looked up as it was typed
InvalidCombination_CaseSensitive(site, model, init_time) ==
  \/ ModelSiteMismatch(site, model)
  \/ ModelInitTimeMismatch(model, init_time)
  \/ ExpiredSites(site, model, init_time)

\* sources.rs:97-164
InvalidCombination(site, model, init_time) ==
  \/ ModelSiteMismatch(Lower[site], model)
  \/ ModelInitTimeMismatch(model, init_time)
  \/ ExpiredSites(Lower[site], model, init_time)

\* IowaState::build_req_info: the set holding the request, or {} when declined
BuildReqInfo(site_id, stn, model, init_time) ==
  IF InvalidCombination(site_id, model, init_time)
    THEN {}
    ELSE LET fixed == FixKnownIssues(site_id, model, init_time)
         IN  {[site_id |-> fixed, stn |-> stn, model |-> model,
               init_time |-> init_time,
               url |-> BuildUrl(fixed, model, init_time)]}

----------------------------------------------------------------------------
(* Archive and catalogue look-ups used by the generator *)

\* Archive::station_num_for_id(...).ok(): {} is None
StationNumForId(idTable, site_id, model) ==
  {r.stn : r \in {x \in idTable : x.site = Upper[site_id] /\ x.model = model}}

\* Archive::file_exists(stn, model, init_time)
FileExists(fileTable, stn, model, init_time) ==
  \E r \in fileTable :
     r.stn = stn /\ r.model = model /\ r.init_time = init_time

\* mutant of IsMissing: no url is ever reported as missing
IsMissing_Never(db, url) == FALSE

\* MissingUrlDb::is_missing
IsMissing(db, url) == url \in db

\* MissingUrlDb::add_url: a plain INSERT into a table whose url is the primary
\* key, so it fails for a url that is present
AddUrl(db, url) == [ok |-> url \notin db, db |-> db \cup {url}]

----------------------------------------------------------------------------
(* AutoDownloadListDb: auto_download_list.rs *)

\* INSERT of a row into the table download, which is a bag of station numbers
\* with station_num as its primary key: a row whose key is present is a
\* conflict, which OR IGNORE skips and a plain INSERT reports as an error
InsertRow(rows, stn, onConflict) ==
  IF BagIn(stn, rows)
    THEN [ok |-> onConflict = "IGNORE", rows |-> rows]
    ELSE [ok |-> TRUE, rows |-> rows (+) SetToBag({stn})]

\* mutant of AddSite: a plain INSERT
AddSite_PlainInsert(rows, stn) == InsertRow(rows, stn, "ABORT")

\* AutoDownloadListDb::add_site: INSERT OR IGNORE
AddSite(rows, stn) == InsertRow(rows, stn, "IGNORE")

\* AutoDownloadListDb::remove_site: DELETE of every row of the station
RemoveSite(rows, stn) ==
  [ok |-> TRUE,
   rows |-> rows (-) [s \in {stn} \cap BagToSet(rows) |-> rows[s]]]

\* AutoDownloadListDb::is_auto_downloaded: COUNT(*) of the station is 1
IsAutoDownloaded(rows, stn) == CopiesIn(stn, rows) = 1

\* AutoDownloadListDb::get_list: one station number per row
GetList(rows) == rows

----------------------------------------------------------------------------
(* build_download_list: generator.rs *)

RECURSIVE RunsDown(_, _, _)
\* Model::all_runs: the run times from..to, newest first
RunsDown(from, to, step) ==
  IF from < to THEN <<>>
  ELSE IF from % step # 0 THEN RunsDown(from - 1, to, step)
  ELSE <<from>> \o RunsDown(from - step, to, step)

AllRuns(model, end, start) == RunsDown(end, start, HoursBetweenRuns(model))

RECURSIVE FlatMap(_, _)
\* flat_map: the lists made for the items, from item i on, one after another
FlatMap(lists, i) ==
  IF i > Len(lists) THEN <<>> ELSE lists[i] \o FlatMap(lists, i + 1)

RECURSIVE SetToSeq(_)
SetToSeq(S) ==
  IF S = {} THEN <<>>
  ELSE LET x == CHOOSE y \in S : TRUE IN <<x>> \o SetToSeq(S \ {x})

\* the (id, station, model) triples of the explicit site list
SiteModelCli(idTable, sites, models) ==
  LET PerModel(model) ==
        [i \in 1..Len(sites) |->
           [id |-> Lower[sites[i]],
            stn |-> StationNumForId(idTable, Lower[sites[i]], model),
            model |-> model]]
  IN  FlatMap([k \in 1..Len(models) |-> PerModel(models[k])], 1)

\* list_of_auto_download: the ids of the auto-download stations, every model
ListOfAutoDownload(idTable, dlStations) ==
  LET PerModel(model) ==
        SetToSeq({[id |-> r.site, stn |-> {r.stn}, model |-> model] :
                   r \in {x \in idTable :
                            x.model = model /\ x.stn \in dlStations}})
  IN  FlatMap([k \in 1..Len(AllModels) |-> PerModel(AllModels[k])], 1)

RECURSIVE SortOldestFirst(_)
\* mutant of SortNewestFirst: the key is not reversed
SortOldestFirst(list) ==
  IF list = <<>> THEN <<>>
  ELSE LET low == CHOOSE t \in {list[i].init_time : i \in 1..Len(list)} :
                    \A i \in 1..Len(list) : list[i].init_time >= t
           IsLow(e) == e.init_time = low
           NotLow(e) == e.init_time # low
       IN  SelectSeq(list, IsLow) \o SortOldestFirst(SelectSeq(list, NotLow))

RECURSIVE SortNewestFirst(_)
\* sort_by_key(Reverse(init_time)): a stable sort
SortNewestFirst(list) ==
  IF list = <<>> THEN <<>>
  ELSE LET top == CHOOSE t \in {list[i].init_time : i \in 1..Len(list)} :
                    \A i \in 1..Len(list) : list[i].init_time <= t
           IsTop(e) == e.init_time = top
           NotTop(e) == e.init_time # top
       IN  SelectSeq(list, IsTop) \o SortNewestFirst(SelectSeq(list, NotTop))

\* mutant of BuildDownloadList: the list is left in the order it was built
BuildDownloadList_Unsorted(idTable, dlStations, sites, models, start, end) ==
  LET siteModel == IF sites # <<>> THEN SiteModelCli(idTable, sites, models)
                                   ELSE ListOfAutoDownload(idTable, dlStations)
      Runs(sm) ==
        LET runs == AllRuns(sm.model, end, start - HoursBetweenRuns(sm.model))
        IN  [i \in 1..Len(runs) |->
               [site_id |-> sm.id, stn |-> sm.stn, model |-> sm.model,
                init_time |-> runs[i]]]
  IN  FlatMap([k \in 1..Len(siteModel) |-> Runs(siteModel[k])], 1)

BuildDownloadList(idTable, dlStations, sites, models, start, end) ==
  LET siteModel == IF sites # <<>> THEN SiteModelCli(idTable, sites, models)
                                   ELSE ListOfAutoDownload(idTable, dlStations)
      Runs(sm) ==
        LET runs == AllRuns(sm.model, end, start - HoursBetweenRuns(sm.model))
        IN  [i \in 1..Len(runs) |->
               [site_id |-> sm.id, stn |-> sm.stn, model |-> sm.model,
                init_time |-> runs[i]]]
  IN  SortNewestFirst(
        FlatMap([k \in 1..Len(siteModel) |-> Runs(siteModel[k])], 1))

\* the filter of the generator on data already in the archive
AlreadyInArchive(fileTable, item) ==
  \E s \in item.stn : FileExists(fileTable, s, item.model, item.init_time)

\* generator.rs:163: the source adapters, in the order they are tried
Sources == <<"IowaState">>

\* Source::build_req_info of one adapter: {} when it declines the item
SourceReqInfo(src, item) ==
  IF src = "IowaState"
    THEN BuildReqInfo(item.site_id, item.stn, item.model, item.init_time)
    ELSE {}

\* the adapters that accept the item and whose url is not known to be missing
UsableSources(db, item) ==
  {i \in DOMAIN Sources :
     \E r \in SourceReqInfo(Sources[i], item) : ~IsMissing(db, r.url)}

\* mutant of FirstRequest: an item is requested though its adapter declines
FirstRequest_Unchecked(db, item) ==
  {r \in {[site_id |-> item.site_id, stn |-> item.stn, model |-> item.model,
            init_time |-> item.init_time,
            url |-> BuildUrl(item.site_id, item.model, item.init_time)]} :
     ~IsMissing(db, r.url)}

\* the request of the first source whose url is not known to be missing
FirstRequest(db, item) ==
  LET usable == UsableSources(db, item)
  IN  IF usable = {} THEN {}
      ELSE LET first == CHOOSE i \in usable : \A j \in usable : i <= j
           IN  SourceReqInfo(Sources[first], item)

----------------------------------------------------------------------------
(* The download pipeline: main.rs, generator.rs, download.rs, db_writer.rs *)

Ended == {"done", "failed", "panicked", "setupfail", "aborted"}

\* print_rx lives until run() returns
ReporterAlive == mainPc \notin Ended

\* save_rx lives until the persister thread ends
PersisterAlive == persPc \notin Ended

\* the fetcher threads that wait on dl_rx
IdleFetchers ==
  IF persPc = "off" THEN 0
  ELSE NumFetchers - fDone - fPanicked - BagCardinality(inflight)

\* some clone of dl_rx lives
SomeFetcherAlive == fDone + fPanicked < NumFetchers

\* generator_tx is dropped
GeneratorClosed == genPc \in Ended

\* every clone of dl_tx is dropped
FetchersClosed == fDone + fPanicked = NumFetchers

\* save_tx is dropped
PersisterClosed == persPc \in Ended

\* the entries of the download list of an invocation that are requested when
\* nothing else changes the archive and MissingUrlDb
Pending(run) ==
  LET list == BuildDownloadList(run.archive.ids, BagToSet(GetList(run.archive.autoDl)),
                                run.sites, run.models, run.start, run.end)
      New(item) == /\ ~AlreadyInArchive(run.archive.files, item)
                   /\ FirstRequest(run.missing, item) # {}
  IN  SelectSeq(list, New)

\* a worker of clean that has not been started, and its empty channel
WorkerOff == [pc |-> "off", left |-> {}, sent |-> 0]

\* every row of the index has its blob
RowsHaveBlobs(fileTable, blobSet) == \A r \in fileTable : r.hash \in blobSet

\* bufcli was not invoked
NoBuild == [site |-> "", model |-> "", files |-> <<>>]

\* the local variables of build_climo before it has read the store
NoLocals ==
  [start_date |-> 0, end_date |-> 0, new_start_date |-> 0,
   new_end_date |-> 0, hdw_max |-> 0, hdw_max_date |-> 0]

\* the four tables of a climatology store that was just created
EmptyStore == [fire |-> {}, locations |-> {}, inventory |-> {}, max |-> {}]

\* the threads and the channels of builder.rs
Stages ==
  {"entry", "filter", "load", "parser", "fire", "loc", "perr", "writer"}

Channels ==
  {"filter_requests", "load_requests", "parse_requests", "fire_requests",
   "loc_requests", "comp_notify", "stats", "parse_err", "error"}

\* the loop of build_climo before it is entered
NoMonitor ==
  [pc |-> "off", pipeline_done |-> FALSE, error_done |-> FALSE,
   data_errors |-> <<>>, num |-> 0]

\* the pipeline of builder.rs was not built
PipelineOff ==
  /\ climoArch = {}
  /\ csExists = FALSE
  /\ stage = [s \in Stages |-> [pc |-> "off", out |-> <<>>]]
  /\ chan = [c \in Channels |-> <<>>]
  /\ monitor = NoMonitor
  /\ csLog = <<>>

\* calc_fire_summary was not called
NoSummary == [pc |-> "off", month |-> 1, day |-> 1, to_return |-> <<>>]

\* no directory at the archive root
NoRoot ==
  [dir |-> FALSE, index |-> "none", files |-> {}, blobs |-> {}, others |-> {}]

\* bkam create was not called
NoCreate == [n |-> 0, force |-> FALSE, ok |-> FALSE, before |-> NoRoot]

\* bkam export was not called
NoExport == [pc |-> "off", todo |-> <<>>, saved |-> <<>>]

NoExportArgs ==
  [rev |-> "", files |-> {}, ids |-> {}, site |-> "", model |-> "",
   start |-> [some |-> FALSE, v |-> 0], end |-> [some |-> FALSE, v |-> 0]]

\* bkam create and bkam export are not running
BkamOff ==
  /\ root = NoRoot
  /\ createCall = NoCreate
  /\ exportIn = NoExportArgs
  /\ exportRun = NoExport

\* the commands modelled on their own are not running
ToolsOff ==
  /\ summary = NoSummary
  /\ BkamOff

\* no call of AutoDownloadListDb was made
NoCall == [op |-> "none"]

\* the programs that a run of bufdn or of bkam fix does not start
ClimoOff ==
  /\ autoCall = NoCall
  /\ climoIn = NoBuild
  /\ fire = {}
  /\ locations = {}
  /\ inventory = {}
  /\ maxRows = {}
  /\ climoPc = "off"
  /\ climoTodo = <<>>
  /\ climoCur = NoLocals
  /\ builds = 0
  /\ store0 = EmptyStore
  /\ fireLog = <<>>
  /\ PipelineOff

\* nothing but bufdn and bkam fix or purge is running
OthersOff == ClimoOff /\ ToolsOff

\* bufdn is started on an invocation
Started(run) ==
  /\ OthersOff
  /\ inSites = run.sites
  /\ inModels = run.models
  /\ inStart = run.start
  /\ inEnd = run.end
  /\ files = run.archive.files
  /\ blobs = run.archive.blobs
  /\ ids = run.archive.ids
  /\ autoDl = run.archive.autoDl
  /\ missing = run.missing
  /\ now \in NowChoices
  /\ files0 = files
  /\ missing0 = missing
  /\ mainPc = "start"
  /\ genPc = "off"
  /\ todo = <<>>
  /\ taken = 0
  /\ dlq = <<>>
  /\ inflight = EmptyBag
  /\ fDone = 0
  /\ fPanicked = 0
  /\ saveq = <<>>
  /\ persPc = "off"
  /\ printq = <<>>
  /\ emitted = <<>>
  /\ started = <<>>
  /\ handled = <<>>
  /\ reported = <<>>
  /\ fixPc = "off"
  /\ idxWorker = WorkerOff
  /\ dataWorker = WorkerOff
  /\ adding = {}
  /\ blobs0 = blobs
  /\ intact = RowsHaveBlobs(files, blobs)
  /\ quiet = TRUE

Init == \E run \in Invocations : Len(Pending(run)) <= MaxReqs /\ Started(run)

\* main.rs:53-55: Archive::connect in start_generator_thread, then the spawns
MainStart ==
  /\ mainPc = "start"
  /\ \E ok \in BOOLEAN :
       IF ok
         THEN /\ mainPc' = "open404"
              /\ genPc' = "open"
              /\ persPc' = "connect"
         ELSE /\ mainPc' = "setupfail"
              /\ UNCHANGED <<genPc, persPc>>
  /\ UNCHANGED <<inSites, inModels, inStart, inEnd, now, todo, taken, dlq,
                 inflight, fDone, fPanicked, saveq, printq, missing, files,
                 blobs, ids, autoDl, emitted, started, handled, files0,
                 missing0, reported, fixPc, idxWorker, dataWorker, adding,
                 blobs0, intact, quiet, autoCall, climoIn, fire, locations,
                 inventory, maxRows, climoPc, climoTodo, climoCur, builds,
                 store0, fireLog, climoArch, csExists, stage, chan, monitor,
                 csLog, summary, root, createCall, exportIn, exportRun>>

\* main.rs:58: MissingUrlDb::open_or_create_404_db(&root)?
MainOpen404 ==
  /\ mainPc = "open404"
  /\ \E ok \in BOOLEAN : mainPc' = IF ok THEN "loop" ELSE "setupfail"
  /\ UNCHANGED <<inSites, inModels, inStart, inEnd, now, genPc, todo, taken,
                 dlq, inflight, fDone, fPanicked, saveq, persPc, printq,
                 missing, files, blobs, ids, autoDl, emitted, started, handled,
                 files0, missing0, reported, fixPc, idxWorker, dataWorker,
                 adding, blobs0, intact, quiet, autoCall, climoIn, fire,
                 locations, inventory, maxRows, climoPc, climoTodo, climoCur,
                 builds, store0, fireLog, climoArch, csExists, stage, chan,
                 monitor, csLog, summary, root, createCall, exportIn, exportRun>>

\* generator_tx.send(InitializationError).expect(..); return
GenInitError ==
  IF SomeFetcherAlive
    THEN /\ Len(dlq) < CAPACITY
         /\ dlq' = Append(dlq, Msg("InitializationError", NoReq))
         /\ genPc' = "failed"
    ELSE /\ genPc' = "panicked"
         /\ dlq' = dlq

\* generator.rs:143-151
GenOpen ==
  /\ genPc = "open"
  /\ \E ok \in BOOLEAN :
       IF ok THEN genPc' = "build" /\ dlq' = dlq ELSE GenInitError
  /\ UNCHANGED <<inSites, inModels, inStart, inEnd, now, mainPc, todo, taken,
                 inflight, fDone, fPanicked, saveq, persPc, printq, missing,
                 files, blobs, ids, autoDl, emitted, started, handled, files0,
                 missing0, reported, fixPc, idxWorker, dataWorker, adding,
                 blobs0, intact, quiet, autoCall, climoIn, fire, locations,
                 inventory, maxRows, climoPc, climoTodo, climoCur, builds,
                 store0, fireLog, climoArch, csExists, stage, chan, monitor,
                 csLog, summary, root, createCall, exportIn, exportRun>>

\* generator.rs:153-161; only the auto-download list can fail (generator.rs:24)
GenBuild ==
  /\ genPc = "build"
  /\ \E ok \in (IF inSites = <<>> THEN BOOLEAN ELSE {TRUE}) :
       IF ok
         THEN /\ genPc' = "run"
              /\ todo' = BuildDownloadList(ids, BagToSet(GetList(autoDl)), inSites,
                                           inModels, inStart, inEnd)
              /\ dlq' = dlq
         ELSE /\ GenInitError
              /\ todo' = todo
  /\ UNCHANGED <<inSites, inModels, inStart, inEnd, now, mainPc, taken,
                 inflight, fDone, fPanicked, saveq, persPc, printq, missing,
                 files, blobs, ids, autoDl, emitted, started, handled, files0,
                 missing0, reported, fixPc, idxWorker, dataWorker, adding,
                 blobs0, intact, quiet, autoCall, climoIn, fire, locations,
                 inventory, maxRows, climoPc, climoTodo, climoCur, builds,
                 store0, fireLog, climoArch, csExists, stage, chan, monitor,
                 csLog, summary, root, createCall, exportIn, exportRun>>

\* mutant of GenStep: the send does not wait for room in the channel
GenStep_NoBackPressure ==
  /\ genPc = "run"
  /\ todo # <<>>
  /\ taken < TAKE_LIMIT
  /\ LET item == Head(todo)
         reqs == IF AlreadyInArchive(files, item) THEN {}
                 ELSE FirstRequest(missing, item)
     IN  /\ todo' = Tail(todo)
         /\ IF reqs = {}
              THEN UNCHANGED <<taken, dlq, emitted>>
              ELSE LET req == CHOOSE r \in reqs : TRUE
                   IN  /\ taken' = taken + 1
                       /\ IF SomeFetcherAlive
                            THEN /\ dlq' = Append(dlq, Msg("Request", req))
                                 /\ emitted' = Append(emitted, req)
                            ELSE UNCHANGED <<dlq, emitted>>
  /\ UNCHANGED <<inSites, inModels, inStart, inEnd, now, mainPc, genPc,
                 inflight, fDone, fPanicked, saveq, persPc, printq, missing,
                 files, blobs, ids, autoDl, started, handled, files0, missing0,
                 reported, fixPc, idxWorker, dataWorker, adding, blobs0,
                 intact, quiet, autoCall, climoIn, fire, locations, inventory,
                 maxRows, climoPc, climoTodo, climoCur, builds, store0,
                 fireLog, climoArch, csExists, stage, chan, monitor, csLog,
                 summary, root, createCall, exportIn, exportRun>>

\* generator.rs:165-188: one item of the lazy iterator chain
GenStep ==
  /\ genPc = "run"
  /\ todo # <<>>
  /\ taken < TAKE_LIMIT
  /\ LET item == Head(todo)
         reqs == IF AlreadyInArchive(files, item) THEN {}
                 ELSE FirstRequest(missing, item)
     IN  /\ todo' = Tail(todo)
         /\ IF reqs = {}
              THEN UNCHANGED <<taken, dlq, emitted>>
              ELSE LET req == CHOOSE r \in reqs : TRUE
                   IN  /\ taken' = taken + 1
                       /\ IF SomeFetcherAlive
                            THEN /\ Len(dlq) < CAPACITY
                                 /\ dlq' = Append(dlq, Msg("Request", req))
                                 /\ emitted' = Append(emitted, req)
                            ELSE UNCHANGED <<dlq, emitted>>
  /\ UNCHANGED <<inSites, inModels, inStart, inEnd, now, mainPc, genPc,
                 inflight, fDone, fPanicked, saveq, persPc, printq, missing,
                 files, blobs, ids, autoDl, started, handled, files0, missing0,
                 reported, fixPc, idxWorker, dataWorker, adding, blobs0,
                 intact, quiet, autoCall, climoIn, fire, locations, inventory,
                 maxRows, climoPc, climoTodo, climoCur, builds, store0,
                 fireLog, climoArch, csExists, stage, chan, monitor, csLog,
                 summary, root, createCall, exportIn, exportRun>>

\* the iterator is exhausted: the thread ends and drops generator_tx
GenDone ==
  /\ genPc = "run"
  /\ todo = <<>> \/ taken >= TAKE_LIMIT
  /\ genPc' = "done"
  /\ UNCHANGED <<inSites, inModels, inStart, inEnd, now, mainPc, todo, taken,
                 dlq, inflight, fDone, fPanicked, saveq, persPc, printq,
                 missing, files, blobs, ids, autoDl, emitted, started, handled,
                 files0, missing0, reported, fixPc, idxWorker, dataWorker,
                 adding, blobs0, intact, quiet, autoCall, climoIn, fire,
                 locations, inventory, maxRows, climoPc, climoTodo, climoCur,
                 builds, store0, fireLog, climoArch, csExists, stage, chan,
                 monitor, csLog, summary, root, createCall, exportIn, exportRun>>

----------------------------------------------------------------------------
(* Archive::add, as the archive service is specified *)

\* what upstream may answer with status 200 for a request
ServedBodies(req) ==
  { [valid |-> TRUE, stn |-> StationInFile(req.site_id),
     init |-> req.init_time, content |-> req.init_time],
    NoBody }
    \cup
  \* at the url of the run of 2021-03-23T12Z upstream may still serve the
  \* file of the run before it
  (IF req.init_time = 84
     THEN {[valid |-> TRUE, stn |-> StationInFile(req.site_id),
            init |-> req.init_time - HoursBetweenRuns(req.model),
            content |-> req.init_time - HoursBetweenRuns(req.model)]}
     ELSE {})

\* step 4: the id is bound to another station at an init time not older
IdMovedStation(idTable, site_id, model, stn, init_time) ==
  \E r \in idTable :
     /\ r.site = Upper[site_id]
     /\ r.model = model
     /\ r.stn # stn
     /\ init_time <= r.mr

\* step 4: the binding of (site_id, model) after a successful add
IdsAfterAdd(idTable, site_id, model, stn, init_time) ==
  LET old == {r \in idTable : r.site = Upper[site_id] /\ r.model = model}
      mr  == IF \E r \in old : r.stn = stn /\ r.mr > init_time
               THEN (CHOOSE r \in old : TRUE).mr
               ELSE init_time
  IN  (idTable \ old) \cup
        {[site |-> Upper[site_id], model |-> model, stn |-> stn, mr |-> mr]}

\* step 6: insert or replace the row of (station, model, init_time)
FilesAfterAdd(fileTable, stn, model, init_time, content) ==
  {r \in fileTable :
     ~(r.stn = stn /\ r.model = model /\ r.init_time = init_time)}
    \cup {FileRow(stn, model, init_time, content)}

\* steps 3-7: the index the transaction may leave behind and its outcome:
\* committed, or rejected or rolled back
CommitOutcomes(fileTable, idTable, site_id, model, body) ==
  LET failures == { [ok |-> FALSE, files |-> fileTable, ids |-> idTable] }
  IN  IF IdMovedStation(idTable, site_id, model, body.stn, body.init)
        THEN failures
        ELSE failures \cup
          { [ok |-> TRUE,
             files |-> FilesAfterAdd(fileTable, body.stn, model, body.init,
                                     body.content),
             ids |-> IdsAfterAdd(idTable, site_id, model, body.stn,
                                 body.init)] }

\* steps 2-7 with nothing in between: the blob is put, then the transaction
AddOutcomes(fileTable, blobSet, idTable, site_id, model, body) ==
  { [ok |-> c.ok, files |-> c.files,
     blobs |-> blobSet \cup {BlobName(body.content)}, ids |-> c.ids] :
      c \in CommitOutcomes(fileTable, idTable, site_id, model, body) }

----------------------------------------------------------------------------
(* Fetchers: download.rs *)

\* what client.get(url).send() and read_to_string may give for a request:
\* the request is answered or not, the status, and whether the body is read
Responses(req) ==
  {[sent |-> TRUE, status |-> 200, read |-> TRUE, body |-> b] :
     b \in ServedBodies(req)}
    \cup {[sent |-> TRUE, status |-> 200, read |-> FALSE, body |-> NoBody]}
    \cup {[sent |-> TRUE, status |-> code, read |-> TRUE, body |-> NoBody] :
            code \in {404, 500}}
    \cup {[sent |-> FALSE, status |-> 0, read |-> FALSE, body |-> NoBody]}

\* mutant of FetchResult: every status but 200 is taken for a 404
FetchResult_EveryStatusNotFound(m, resp) ==
  IF m.kind = "Request"
    THEN IF resp.sent
           THEN IF resp.status = 200
                  THEN IF resp.read
                         THEN [kind |-> "BufkitFileAsString", req |-> m.req,
                               body |-> resp.body]
                         ELSE Msg("OtherDownloadError", m.req)
                  ELSE Msg("URLNotFound", m.req)
           ELSE Msg("OtherDownloadError", m.req)
    ELSE m

\* mutant of FetchResult: a request that could not be sent is passed on as
\* it is
FetchResult_UnsentRequestPassedOn(m, resp) ==
  IF m.kind = "Request"
    THEN IF resp.sent
           THEN IF resp.status = 200
                  THEN IF resp.read
                         THEN [kind |-> "BufkitFileAsString", req |-> m.req,
                               body |-> resp.body]
                         ELSE Msg("OtherDownloadError", m.req)
                  ELSE IF resp.status = 404
                         THEN Msg("URLNotFound", m.req)
                         ELSE Msg("OtherURLStatus", m.req)
           ELSE m
    ELSE m

\* download.rs:18-54: the result of one message, given the response
FetchResult(m, resp) ==
  IF m.kind = "Request"
    THEN IF resp.sent
           THEN IF resp.status = 200
                  THEN IF resp.read
                         THEN [kind |-> "BufkitFileAsString", req |-> m.req,
                               body |-> resp.body]
                         ELSE Msg("OtherDownloadError", m.req)
                  ELSE IF resp.status = 404
                         THEN Msg("URLNotFound", m.req)
                         ELSE Msg("OtherURLStatus", m.req)
           ELSE Msg("OtherDownloadError", m.req)
    ELSE m

\* download.rs:18-54: the results one message may have
FetchResults(m) ==
  IF m.kind = "Request"
    THEN {FetchResult(m, resp) : resp \in Responses(m.req)}
    ELSE {m}

\* download.rs:17: the next message of dl_rx, and the request made for it
FetchRecv ==
  /\ IdleFetchers > 0
  /\ dlq # <<>>
  /\ \E res \in FetchResults(Head(dlq)) :
       inflight' = inflight (+) SetToBag({res})
  /\ dlq' = Tail(dlq)
  /\ started' = IF Head(dlq).kind = "Request"
                  THEN Append(started, Head(dlq).req) ELSE started
  /\ UNCHANGED <<inSites, inModels, inStart, inEnd, now, mainPc, genPc, todo,
                 taken, fDone, fPanicked, saveq, persPc, printq, missing,
                 files, blobs, ids, autoDl, emitted, handled, files0, missing0,
                 reported, fixPc, idxWorker, dataWorker, adding, blobs0,
                 intact, quiet, autoCall, climoIn, fire, locations, inventory,
                 maxRows, climoPc, climoTodo, climoCur, builds, store0,
                 fireLog, climoArch, csExists, stage, chan, monitor, csLog,
                 summary, root, createCall, exportIn, exportRun>>

\* download.rs:56: dl_tx.send(next_step).expect("dl_tx error sending.")
FetchSend ==
  /\ \E res \in BagToSet(inflight) :
       /\ inflight' = inflight (-) SetToBag({res})
       /\ IF PersisterAlive
            THEN /\ Len(saveq) < CAPACITY
                 /\ saveq' = Append(saveq, res)
                 /\ fPanicked' = fPanicked
            ELSE /\ saveq' = saveq
                 /\ fPanicked' = fPanicked + 1
  /\ UNCHANGED <<inSites, inModels, inStart, inEnd, now, mainPc, genPc, todo,
                 taken, dlq, fDone, persPc, printq, missing, files, blobs, ids,
                 autoDl, emitted, started, handled, files0, missing0, reported,
                 fixPc, idxWorker, dataWorker, adding, blobs0, intact, quiet,
                 autoCall, climoIn, fire, locations, inventory, maxRows,
                 climoPc, climoTodo, climoCur, builds, store0, fireLog,
                 climoArch, csExists, stage, chan, monitor, csLog, summary,
                 root, createCall, exportIn, exportRun>>

\* download.rs:17: dl_rx is empty and disconnected, the thread ends
FetchEnd ==
  /\ IdleFetchers > 0
  /\ dlq = <<>>
  /\ GeneratorClosed
  /\ fDone' = fDone + 1
  /\ UNCHANGED <<inSites, inModels, inStart, inEnd, now, mainPc, genPc, todo,
                 taken, dlq, inflight, fPanicked, saveq, persPc, printq,
                 missing, files, blobs, ids, autoDl, emitted, started, handled,
                 files0, missing0, reported, fixPc, idxWorker, dataWorker,
                 adding, blobs0, intact, quiet, autoCall, climoIn, fire,
                 locations, inventory, maxRows, climoPc, climoTodo, climoCur,
                 builds, store0, fireLog, climoArch, csExists, stage, chan,
                 monitor, csLog, summary, root, createCall, exportIn, exportRun>>

----------------------------------------------------------------------------
(* Persister: db_writer.rs *)

\* db_writer.rs:14-22
PersistConnect ==
  /\ persPc = "connect"
  /\ \E ok \in BOOLEAN :
       IF ok
         THEN persPc' = "loop" /\ printq' = printq
         ELSE IF ReporterAlive
                THEN /\ Len(printq) < CAPACITY
                     /\ printq' = Append(printq,
                                          Msg("InitializationError", NoReq))
                     /\ persPc' = "failed"
                ELSE /\ printq' = printq
                     /\ persPc' = "panicked"
  /\ UNCHANGED <<inSites, inModels, inStart, inEnd, now, mainPc, genPc, todo,
                 taken, dlq, inflight, fDone, fPanicked, saveq, missing, files,
                 blobs, ids, autoDl, emitted, started, handled, files0,
                 missing0, reported, fixPc, idxWorker, dataWorker, adding,
                 blobs0, intact, quiet, autoCall, climoIn, fire, locations,
                 inventory, maxRows, climoPc, climoTodo, climoCur, builds,
                 store0, fireLog, climoArch, csExists, stage, chan, monitor,
                 csLog, summary, root, createCall, exportIn, exportRun>>

\* mutant of PersistResults: the payload is added without being parsed
PersistResults_NoParseCheck(m) ==
  IF m.kind = "BufkitFileAsString"
    THEN {[msg |-> Msg(IF a.ok THEN "Success" ELSE "ArchiveError", m.req),
           files |-> a.files, blobs |-> a.blobs, ids |-> a.ids] :
            a \in AddOutcomes(files, blobs, ids, m.req.site_id,
                              m.req.model, m.body)}
    ELSE {[msg |-> m, files |-> files, blobs |-> blobs, ids |-> ids]}

\* mutant of PersistResults: a fetch error is passed on as a download error
PersistResults_ErrorsRelabelled(m) ==
  IF m.kind = "BufkitFileAsString"
    THEN IF m.body.valid
           THEN {[msg |-> Msg(IF a.ok THEN "Success" ELSE "ArchiveError",
                              m.req),
                  files |-> a.files, blobs |-> a.blobs, ids |-> a.ids] :
                   a \in AddOutcomes(files, blobs, ids, m.req.site_id,
                                     m.req.model, m.body)}
           ELSE {[msg |-> Msg("ParseError", m.req),
                  files |-> files, blobs |-> blobs, ids |-> ids]}
    ELSE {[msg |-> Msg("OtherDownloadError", m.req),
           files |-> files, blobs |-> blobs, ids |-> ids]}

\* mutant of PersistResults: Success is reported whatever add returned
PersistResults_AlwaysSuccess(m) ==
  IF m.kind = "BufkitFileAsString"
    THEN IF m.body.valid
           THEN {[msg |-> Msg("Success", m.req),
                  files |-> a.files, blobs |-> a.blobs, ids |-> a.ids] :
                   a \in AddOutcomes(files, blobs, ids, m.req.site_id,
                                     m.req.model, m.body)}
           ELSE {[msg |-> Msg("ParseError", m.req),
                  files |-> files, blobs |-> blobs, ids |-> ids]}
    ELSE {[msg |-> m, files |-> files, blobs |-> blobs, ids |-> ids]}

\* db_writer.rs:27-74: the result of one message and the archive it leaves
PersistResults(m) ==
  IF m.kind = "BufkitFileAsString"
    THEN IF m.body.valid
           THEN {[msg |-> Msg(IF a.ok THEN "Success" ELSE "ArchiveError",
                              m.req),
                  files |-> a.files, blobs |-> a.blobs, ids |-> a.ids] :
                   a \in AddOutcomes(files, blobs, ids, m.req.site_id,
                                     m.req.model, m.body)}
           ELSE {[msg |-> Msg("ParseError", m.req),
                  files |-> files, blobs |-> blobs, ids |-> ids]}
    ELSE {[msg |-> m, files |-> files, blobs |-> blobs, ids |-> ids]}

\* db_writer.rs:26-77: one turn of the loop over save_rx
PersistStep ==
  /\ persPc = "loop"
  /\ saveq # <<>>
  /\ saveq' = Tail(saveq)
  /\ \E r \in PersistResults(Head(saveq)) :
       /\ files' = r.files
       /\ blobs' = r.blobs
       /\ ids' = r.ids
       /\ handled' = Append(handled, [in |-> Head(saveq), out |-> r.msg])
       /\ IF ReporterAlive
            THEN /\ Len(printq) < CAPACITY
                 /\ printq' = Append(printq, r.msg)
                 /\ persPc' = persPc
            ELSE /\ printq' = printq
                 /\ persPc' = "panicked"
  /\ UNCHANGED <<inSites, inModels, inStart, inEnd, now, mainPc, genPc, todo,
                 taken, dlq, inflight, fDone, fPanicked, missing, autoDl,
                 emitted, started, files0, missing0, reported, fixPc,
                 idxWorker, dataWorker, adding, blobs0, intact, quiet,
                 autoCall, climoIn, fire, locations, inventory, maxRows,
                 climoPc, climoTodo, climoCur, builds, store0, fireLog,
                 climoArch, csExists, stage, chan, monitor, csLog, summary,
                 root, createCall, exportIn, exportRun>>

\* db_writer.rs:26,79-86: save_rx is empty and disconnected; save_latest
\* returns Ok(()) on every path, so nothing more is sent
PersistEnd ==
  /\ persPc = "loop"
  /\ saveq = <<>>
  /\ FetchersClosed
  /\ persPc' = "done"
  /\ UNCHANGED <<inSites, inModels, inStart, inEnd, now, mainPc, genPc, todo,
                 taken, dlq, inflight, fDone, fPanicked, saveq, printq,
                 missing, files, blobs, ids, autoDl, emitted, started, handled,
                 files0, missing0, reported, fixPc, idxWorker, dataWorker,
                 adding, blobs0, intact, quiet, autoCall, climoIn, fire,
                 locations, inventory, maxRows, climoPc, climoTodo, climoCur,
                 builds, store0, fireLog, climoArch, csExists, stage, chan,
                 monitor, csLog, summary, root, createCall, exportIn, exportRun>>

----------------------------------------------------------------------------
(* Reporter: the loop of run() in main.rs *)

\* mutant of TooOldToBeMissing: the cutoff itself counts as too old
TooOldToBeMissing_Inclusive(init_time, cutoff) == init_time <= cutoff

\* main.rs:67,78: init_time < too_old_to_be_missing
TooOldToBeMissing(init_time, cutoff) == init_time < cutoff

\* mutant of ReportResult: an HTTP status other than 200 and 404 of an old
\* request is recorded like a 404
ReportResult_RecordsHttpErrors(m) ==
  IF m.kind \in {"URLNotFound", "ParseError", "OtherURLStatus"}
    THEN IF TooOldToBeMissing(m.req.init_time, now - TOO_OLD_HOURS)
           THEN LET a == AddUrl(missing, m.req.url)
                IN  IF a.ok THEN [pc |-> "loop", db |-> a.db]
                            ELSE [pc |-> "aborted", db |-> missing]
           ELSE [pc |-> "loop", db |-> missing]
    ELSE IF m.kind \in {"OtherDownloadError", "ArchiveError",
                        "Success", "InitializationError"}
           THEN [pc |-> "loop", db |-> missing]
           ELSE [pc |-> "panicked", db |-> missing]

\* main.rs:63-95: the main thread and MissingUrlDb after one result
ReportResult(m) ==
  IF m.kind \in {"URLNotFound", "ParseError"}
    THEN IF TooOldToBeMissing(m.req.init_time, now - TOO_OLD_HOURS)
           THEN LET a == AddUrl(missing, m.req.url)
                IN  IF a.ok THEN [pc |-> "loop", db |-> a.db]
                            ELSE [pc |-> "aborted", db |-> missing]
           ELSE [pc |-> "loop", db |-> missing]
    ELSE IF m.kind \in {"OtherURLStatus", "OtherDownloadError", "ArchiveError",
                        "Success", "InitializationError"}
           THEN [pc |-> "loop", db |-> missing]
           ELSE [pc |-> "panicked", db |-> missing]

\* main.rs:60-96: one turn of the loop over print_rx
ReportStep ==
  /\ mainPc = "loop"
  /\ printq # <<>>
  /\ printq' = Tail(printq)
  /\ reported' = Append(reported, Head(printq))
  /\ mainPc' = ReportResult(Head(printq)).pc
  /\ missing' = ReportResult(Head(printq)).db
  /\ UNCHANGED <<inSites, inModels, inStart, inEnd, now, genPc, todo, taken,
                 dlq, inflight, fDone, fPanicked, saveq, persPc, files, blobs,
                 ids, autoDl, emitted, started, handled, files0, missing0,
                 fixPc, idxWorker, dataWorker, adding, blobs0, intact, quiet,
                 autoCall, climoIn, fire, locations, inventory, maxRows,
                 climoPc, climoTodo, climoCur, builds, store0, fireLog,
                 climoArch, csExists, stage, chan, monitor, csLog, summary,
                 root, createCall, exportIn, exportRun>>

\* main.rs:60,98: print_rx is empty and disconnected, run() returns Ok(())
ReportEnd ==
  /\ mainPc = "loop"
  /\ printq = <<>>
  /\ PersisterClosed
  /\ mainPc' = "done"
  /\ UNCHANGED <<inSites, inModels, inStart, inEnd, now, genPc, todo, taken,
                 dlq, inflight, fDone, fPanicked, saveq, persPc, printq,
                 missing, files, blobs, ids, autoDl, emitted, started, handled,
                 files0, missing0, reported, fixPc, idxWorker, dataWorker,
                 adding, blobs0, intact, quiet, autoCall, climoIn, fire,
                 locations, inventory, maxRows, climoPc, climoTodo, climoCur,
                 builds, store0, fireLog, climoArch, csExists, stage, chan,
                 monitor, csLog, summary, root, createCall, exportIn, exportRun>>

Next ==
  \/ MainStart
  \/ MainOpen404
  \/ GenOpen
  \/ GenBuild
  \/ GenStep
  \/ GenDone
  \/ FetchRecv
  \/ FetchSend
  \/ FetchEnd
  \/ PersistConnect
  \/ PersistStep
  \/ PersistEnd
  \/ ReportStep
  \/ ReportEnd

Spec == Init /\ [][Next]_vars

\* the threads are scheduled by the operating system: a step that stays
\* possible is taken
Fairness ==
  /\ WF_vars(MainStart)
  /\ WF_vars(MainOpen404)
  /\ WF_vars(GenOpen)
  /\ WF_vars(GenBuild)
  /\ WF_vars(GenStep)
  /\ WF_vars(GenDone)
  /\ WF_vars(FetchRecv)
  /\ WF_vars(FetchSend)
  /\ WF_vars(FetchEnd)
  /\ WF_vars(PersistConnect)
  /\ WF_vars(PersistStep)
  /\ WF_vars(PersistEnd)
  /\ WF_vars(ReportStep)
  /\ WF_vars(ReportEnd)

SpecLive == Spec /\ Fairness

----------------------------------------------------------------------------
(* A long download list, while the persister has not taken anything yet *)

\* the number of runs of the long download list
FillRuns == 19

\* one site and one model over a window of FillRuns runs, on an empty
\* archive
FillRun ==
  Invocation([files |-> {}, blobs |-> {}, ids |-> {}, autoDl |-> EmptyBag], {},
             <<"kmso">>, <<"GFS">>, 72 - 6 * (FillRuns - 2), 72)

InitFill == Started(FillRun)

\* the steps of the main thread before its loop, of the generator and of the
\* receiving end of the fetchers
NextFill ==
  \/ MainStart
  \/ MainOpen404
  \/ GenOpen
  \/ GenBuild
  \/ GenStep
  \/ GenDone
  \/ FetchRecv

SpecFill == InitFill /\ [][NextFill]_vars

----------------------------------------------------------------------------
(* The requests made for the site KLDN *)

\* an archive that knows KLDN for GFS and NAM, holds its GFS run 54 and
\* downloads it by itself
KldnArchive ==
  [files |-> {FileRow(727570, "GFS", 54, 54)},
   blobs |-> {BlobName(54)},
   ids |-> {[site |-> "KLDN", model |-> m, stn |-> 727570, mr |-> 54] :
              m \in {"GFS", "NAM"}},
   autoDl |-> SetToBag({727570})]

\* the site typed in either case, or taken from the auto-download list, over
\* the runs around 2021-03-22T18Z and around 2020-05-01T00Z
KldnRuns ==
  LET empty   == [files |-> {}, blobs |-> {}, ids |-> {}, autoDl |-> EmptyBag]
      windows == {[start |-> 60, end |-> 66],
                  [start |-> KldnNamRename - 6, end |-> KldnNamRename]}
  IN  { Invocation(empty, {}, <<id>>, <<model>>, w.start, w.end) :
          id \in {"kldn", "KLDN"}, model \in {"GFS", "NAM", "NAM4KM"},
          w \in windows }
        \cup { Invocation(KldnArchive, {}, <<>>, <<"GFS">>, w.start, w.end) :
                 w \in windows }

InitKldn == \E run \in KldnRuns : Started(run)

\* the generator and the receiving end of the fetchers, as in NextFill
SpecKldn == InitKldn /\ [][NextFill]_vars

----------------------------------------------------------------------------
(* bkam fix and bkam purge beside a writer of the same archive *)

\* the init times of the rows and payloads of this part
ArchRuns == {72, 78}

\* the payloads the writer may be given for KMSO, GFS
ArchBodies ==
  { [valid |-> TRUE, stn |-> StationInFile("kmso"), init |-> t, content |-> c] :
      t \in ArchRuns, c \in 1..NumPayloads }

\* the indexes an archive directory of KMSO, GFS may hold
ArchIndexes ==
  { fs \in SUBSET { FileRow(b.stn, "GFS", b.init, b.content) :
                      b \in ArchBodies } :
      \A r1, r2 \in fs : r1.init_time = r2.init_time => r1 = r2 }

\* the table ids that goes with an index
IdsOfIndex(fileTable) ==
  IF fileTable = {} THEN {}
  ELSE {[site |-> "KMSO", model |-> "GFS", stn |-> StationInFile("kmso"),
         mr |-> CHOOSE t \in {r.init_time : r \in fileTable} :
                  \A r \in fileTable : r.init_time <= t]}

\* no row references the blob
Unreferenced(fileTable, name) == \A r \in fileTable : r.hash # name

\* the archive directory as found: rows and files in data/ in any
\* combination, as files of data/ may have been deleted or left behind;
\* files0 and blobs0 are taken when bkam fix calls clean_index
InitArch ==
  /\ OthersOff
  /\ inSites = <<>>
  /\ inModels = InModels
  /\ inStart = 72
  /\ inEnd = 72
  /\ now = 99
  /\ mainPc = "off"
  /\ genPc = "off"
  /\ todo = <<>>
  /\ taken = 0
  /\ dlq = <<>>
  /\ inflight = EmptyBag
  /\ fDone = 0
  /\ fPanicked = 0
  /\ saveq = <<>>
  /\ persPc = "off"
  /\ printq = <<>>
  /\ missing = {}
  /\ files \in ArchIndexes
  /\ blobs \in SUBSET {BlobName(c) : c \in 1..NumPayloads}
  /\ ids = IdsOfIndex(files)
  /\ autoDl = EmptyBag
  /\ emitted = <<>>
  /\ started = <<>>
  /\ handled = <<>>
  /\ files0 = {}
  /\ missing0 = {}
  /\ reported = <<>>
  /\ fixPc = "start"
  /\ idxWorker = WorkerOff
  /\ dataWorker = WorkerOff
  /\ adding = {}
  /\ blobs0 = {}
  /\ intact = RowsHaveBlobs(files, blobs)
  /\ quiet = TRUE

\* another operation has touched the archive: the history of bkam fix having
\* the archive for itself ends
Disturbed ==
  /\ quiet' = FALSE
  /\ files0' = {}
  /\ blobs0' = {}

\* db_writer.rs:51 arch.add, step 2: the blob is put before the transaction
ArchAddPut ==
  /\ adding = {}
  /\ \E body \in ArchBodies :
       /\ adding' = {body}
       /\ blobs' = blobs \cup {BlobName(body.content)}
  /\ Disturbed
  /\ UNCHANGED <<inSites, inModels, inStart, inEnd, now, mainPc, genPc, todo,
                 taken, dlq, inflight, fDone, fPanicked, saveq, persPc, printq,
                 missing, files, ids, autoDl, emitted, started, handled,
                 missing0, reported, fixPc, idxWorker, dataWorker, intact,
                 autoCall, climoIn, fire, locations, inventory, maxRows,
                 climoPc, climoTodo, climoCur, builds, store0, fireLog,
                 climoArch, csExists, stage, chan, monitor, csLog, summary,
                 root, createCall, exportIn, exportRun>>

\* db_writer.rs:51-66 arch.add, steps 3-7: the transaction on the index
ArchAddCommit ==
  /\ adding # {}
  /\ \E body \in adding :
       \E c \in CommitOutcomes(files, ids, "kmso", "GFS", body) :
         /\ files' = c.files
         /\ ids' = c.ids
  /\ adding' = {}
  /\ Disturbed
  /\ UNCHANGED <<inSites, inModels, inStart, inEnd, now, mainPc, genPc, todo,
                 taken, dlq, inflight, fDone, fPanicked, saveq, persPc, printq,
                 missing, blobs, autoDl, emitted, started, handled, missing0,
                 reported, fixPc, idxWorker, dataWorker, intact, autoCall,
                 climoIn, fire, locations, inventory, maxRows, climoPc,
                 climoTodo, climoCur, builds, store0, fireLog, climoArch,
                 csExists, stage, chan, monitor, csLog, summary, root,
                 createCall, exportIn, exportRun>>

\* purge.rs:63 arch.remove: the row is deleted, then its blob when no row
\* references it any more
ArchRemove ==
  /\ \E r \in files :
       /\ files' = files \ {r}
       /\ blobs' = IF Unreferenced(files \ {r}, r.hash)
                     THEN blobs \ {r.hash} ELSE blobs
  /\ Disturbed
  /\ UNCHANGED <<inSites, inModels, inStart, inEnd, now, mainPc, genPc, todo,
                 taken, dlq, inflight, fDone, fPanicked, saveq, persPc, printq,
                 missing, ids, autoDl, emitted, started, handled, missing0,
                 reported, fixPc, idxWorker, dataWorker, adding, intact,
                 autoCall, climoIn, fire, locations, inventory, maxRows,
                 climoPc, climoTodo, climoCur, builds, store0, fireLog,
                 climoArch, csExists, stage, chan, monitor, csLog, summary,
                 root, createCall, exportIn, exportRun>>

\* fix.rs:45 arch.clean_index(): the worker of Pass A gets the rows to visit
FixCleanIndex ==
  /\ fixPc = "start"
  /\ fixPc' = "index"
  /\ idxWorker' = [pc |-> "run", left |-> files, sent |-> 0]
  /\ IF adding = {}
       THEN quiet' = TRUE /\ files0' = files /\ blobs0' = blobs
       ELSE Disturbed
  /\ UNCHANGED <<inSites, inModels, inStart, inEnd, now, mainPc, genPc, todo,
                 taken, dlq, inflight, fDone, fPanicked, saveq, persPc, printq,
                 missing, files, blobs, ids, autoDl, emitted, started, handled,
                 missing0, reported, dataWorker, adding, intact, autoCall,
                 climoIn, fire, locations, inventory, maxRows, climoPc,
                 climoTodo, climoCur, builds, store0, fireLog, climoArch,
                 csExists, stage, chan, monitor, csLog, summary, root,
                 createCall, exportIn, exportRun>>

\* Pass A, one row: it is deleted when its blob is missing; progress is sent
PassAStep ==
  /\ idxWorker.pc = "run"
  /\ \E r \in idxWorker.left :
       /\ files' = IF r.hash \notin blobs THEN files \ {r} ELSE files
       /\ idxWorker' = [idxWorker EXCEPT !.left = @ \ {r}, !.sent = @ + 1]
  /\ UNCHANGED <<inSites, inModels, inStart, inEnd, now, mainPc, genPc, todo,
                 taken, dlq, inflight, fDone, fPanicked, saveq, persPc, printq,
                 missing, blobs, ids, autoDl, emitted, started, handled,
                 files0, missing0, reported, fixPc, dataWorker, adding, blobs0,
                 intact, quiet, autoCall, climoIn, fire, locations, inventory,
                 maxRows, climoPc, climoTodo, climoCur, builds, store0,
                 fireLog, climoArch, csExists, stage, chan, monitor, csLog,
                 summary, root, createCall, exportIn, exportRun>>

\* Pass A has visited every row: the worker ends and drops its sender
PassAEnd ==
  /\ idxWorker.pc = "run"
  /\ idxWorker.left = {}
  /\ idxWorker' = [idxWorker EXCEPT !.pc = "done"]
  /\ UNCHANGED <<inSites, inModels, inStart, inEnd, now, mainPc, genPc, todo,
                 taken, dlq, inflight, fDone, fPanicked, saveq, persPc, printq,
                 missing, files, blobs, ids, autoDl, emitted, started, handled,
                 files0, missing0, reported, fixPc, dataWorker, adding, blobs0,
                 intact, quiet, autoCall, climoIn, fire, locations, inventory,
                 maxRows, climoPc, climoTodo, climoCur, builds, store0,
                 fireLog, climoArch, csExists, stage, chan, monitor, csLog,
                 summary, root, createCall, exportIn, exportRun>>

\* fix.rs:47-53: one progress message of Pass A is taken
FixDrainIndex ==
  /\ fixPc = "index"
  /\ idxWorker.sent > 0
  /\ idxWorker' = [idxWorker EXCEPT !.sent = @ - 1]
  /\ UNCHANGED <<inSites, inModels, inStart, inEnd, now, mainPc, genPc, todo,
                 taken, dlq, inflight, fDone, fPanicked, saveq, persPc, printq,
                 missing, files, blobs, ids, autoDl, emitted, started, handled,
                 files0, missing0, reported, fixPc, dataWorker, adding, blobs0,
                 intact, quiet, autoCall, climoIn, fire, locations, inventory,
                 maxRows, climoPc, climoTodo, climoCur, builds, store0,
                 fireLog, climoArch, csExists, stage, chan, monitor, csLog,
                 summary, root, createCall, exportIn, exportRun>>

\* mutant of ProgressEnded: the loop ends as soon as the channel is empty
ProgressEnded_WhenEmpty(worker) == worker.sent = 0

\* fix.rs:47,61: `for .. in recv` ends when the channel is empty and its
\* sender is dropped
ProgressEnded(worker) == worker.pc = "done" /\ worker.sent = 0

\* mutant of FixCleanData: the data directory is not looked at
FixCleanData_Skipped ==
  /\ fixPc = "index"
  /\ ProgressEnded(idxWorker)
  /\ fixPc' = "data"
  /\ dataWorker' = [pc |-> "done", left |-> {}, sent |-> 0]
  /\ UNCHANGED <<inSites, inModels, inStart, inEnd, now, mainPc, genPc, todo,
                 taken, dlq, inflight, fDone, fPanicked, saveq, persPc, printq,
                 missing, files, blobs, ids, autoDl, emitted, started, handled,
                 files0, missing0, reported, idxWorker, adding, blobs0, intact,
                 quiet, autoCall, climoIn, fire, locations, inventory, maxRows,
                 climoPc, climoTodo, climoCur, builds, store0, fireLog,
                 climoArch, csExists, stage, chan, monitor, csLog, summary,
                 root, createCall, exportIn, exportRun>>

\* fix.rs:54-59 arch.clean_data(): the worker of Pass B gets the files of
\* data/ to visit
FixCleanData ==
  /\ fixPc = "index"
  /\ ProgressEnded(idxWorker)
  /\ fixPc' = "data"
  /\ dataWorker' = [pc |-> "run", left |-> blobs, sent |-> 0]
  /\ UNCHANGED <<inSites, inModels, inStart, inEnd, now, mainPc, genPc, todo,
                 taken, dlq, inflight, fDone, fPanicked, saveq, persPc, printq,
                 missing, files, blobs, ids, autoDl, emitted, started, handled,
                 files0, missing0, reported, idxWorker, adding, blobs0, intact,
                 quiet, autoCall, climoIn, fire, locations, inventory, maxRows,
                 climoPc, climoTodo, climoCur, builds, store0, fireLog,
                 climoArch, csExists, stage, chan, monitor, csLog, summary,
                 root, createCall, exportIn, exportRun>>

\* Pass B, one file: it is deleted when no row references it
PassBStep ==
  /\ dataWorker.pc = "run"
  /\ \E b \in dataWorker.left :
       /\ blobs' = IF Unreferenced(files, b) THEN blobs \ {b} ELSE blobs
       /\ dataWorker' = [dataWorker EXCEPT !.left = @ \ {b}, !.sent = @ + 1]
  /\ UNCHANGED <<inSites, inModels, inStart, inEnd, now, mainPc, genPc, todo,
                 taken, dlq, inflight, fDone, fPanicked, saveq, persPc, printq,
                 missing, files, ids, autoDl, emitted, started, handled,
                 files0, missing0, reported, fixPc, idxWorker, adding, blobs0,
                 intact, quiet, autoCall, climoIn, fire, locations, inventory,
                 maxRows, climoPc, climoTodo, climoCur, builds, store0,
                 fireLog, climoArch, csExists, stage, chan, monitor, csLog,
                 summary, root, createCall, exportIn, exportRun>>

\* Pass B has visited every file: the worker ends and drops its sender
PassBEnd ==
  /\ dataWorker.pc = "run"
  /\ dataWorker.left = {}
  /\ dataWorker' = [dataWorker EXCEPT !.pc = "done"]
  /\ UNCHANGED <<inSites, inModels, inStart, inEnd, now, mainPc, genPc, todo,
                 taken, dlq, inflight, fDone, fPanicked, saveq, persPc, printq,
                 missing, files, blobs, ids, autoDl, emitted, started, handled,
                 files0, missing0, reported, fixPc, idxWorker, adding, blobs0,
                 intact, quiet, autoCall, climoIn, fire, locations, inventory,
                 maxRows, climoPc, climoTodo, climoCur, builds, store0,
                 fireLog, climoArch, csExists, stage, chan, monitor, csLog,
                 summary, root, createCall, exportIn, exportRun>>

\* fix.rs:61-68: one progress message of Pass B is taken
FixDrainData ==
  /\ fixPc = "data"
  /\ dataWorker.sent > 0
  /\ dataWorker' = [dataWorker EXCEPT !.sent = @ - 1]
  /\ UNCHANGED <<inSites, inModels, inStart, inEnd, now, mainPc, genPc, todo,
                 taken, dlq, inflight, fDone, fPanicked, saveq, persPc, printq,
                 missing, files, blobs, ids, autoDl, emitted, started, handled,
                 files0, missing0, reported, fixPc, idxWorker, adding, blobs0,
                 intact, quiet, autoCall, climoIn, fire, locations, inventory,
                 maxRows, climoPc, climoTodo, climoCur, builds, store0,
                 fireLog, climoArch, csExists, stage, chan, monitor, csLog,
                 summary, root, createCall, exportIn, exportRun>>

\* fix.rs:69-77 arch.compress_index(), then fix returns
FixCompress ==
  /\ fixPc = "data"
  /\ ProgressEnded(dataWorker)
  /\ fixPc' = "done"
  /\ UNCHANGED <<inSites, inModels, inStart, inEnd, now, mainPc, genPc, todo,
                 taken, dlq, inflight, fDone, fPanicked, saveq, persPc, printq,
                 missing, files, blobs, ids, autoDl, emitted, started, handled,
                 files0, missing0, reported, idxWorker, dataWorker, adding,
                 blobs0, intact, quiet, autoCall, climoIn, fire, locations,
                 inventory, maxRows, climoPc, climoTodo, climoCur, builds,
                 store0, fireLog, climoArch, csExists, stage, chan, monitor,
                 csLog, summary, root, createCall, exportIn, exportRun>>

NextArch ==
  \/ ArchAddPut
  \/ ArchAddCommit
  \/ ArchRemove
  \/ FixCleanIndex
  \/ PassAStep
  \/ PassAEnd
  \/ FixDrainIndex
  \/ FixCleanData
  \/ PassBStep
  \/ PassBEnd
  \/ FixDrainData
  \/ FixCompress

SpecArch == InitArch /\ [][NextArch]_vars

----------------------------------------------------------------------------
(* The auto-download list on its own: calls of add_site and remove_site *)

\* the stations a call may name
AutoStations == {727730, 727570, 726770, 727830}

\* bufdn and bkam fix are not running, on an empty archive
BufdnOff ==
  /\ inSites = <<>>
  /\ inModels = InModels
  /\ inStart = 72
  /\ inEnd = 72
  /\ now = 99
  /\ mainPc = "off"
  /\ genPc = "off"
  /\ todo = <<>>
  /\ taken = 0
  /\ dlq = <<>>
  /\ inflight = EmptyBag
  /\ fDone = 0
  /\ fPanicked = 0
  /\ saveq = <<>>
  /\ persPc = "off"
  /\ printq = <<>>
  /\ missing = {}
  /\ files = {}
  /\ blobs = {}
  /\ ids = {}
  /\ emitted = <<>>
  /\ started = <<>>
  /\ handled = <<>>
  /\ files0 = {}
  /\ missing0 = {}
  /\ reported = <<>>
  /\ fixPc = "off"
  /\ idxWorker = WorkerOff
  /\ dataWorker = WorkerOff
  /\ adding = {}
  /\ blobs0 = {}
  /\ intact = TRUE
  /\ quiet = TRUE

\* the list as created by open_or_create, or as left with one station
InitAuto ==
  /\ BufdnOff
  /\ autoDl \in {EmptyBag, SetToBag({727730})}
  /\ OthersOff

\* auto_download_list.rs:47-56
AutoAddSite ==
  /\ \E stn \in AutoStations :
       LET res == AddSite(autoDl, stn)
       IN  /\ autoDl' = res.rows
           /\ autoCall' = [op |-> "add_site", stn |-> stn, ok |-> res.ok,
                           before |-> autoDl]
  /\ UNCHANGED <<inSites, inModels, inStart, inEnd, now, mainPc, genPc, todo,
                 taken, dlq, inflight, fDone, fPanicked, saveq, persPc, printq,
                 missing, files, blobs, ids, emitted, started, handled, files0,
                 missing0, reported, fixPc, idxWorker, dataWorker, adding,
                 blobs0, intact, quiet, climoIn, fire, locations, inventory,
                 maxRows, climoPc, climoTodo, climoCur, builds, store0,
                 fireLog, climoArch, csExists, stage, chan, monitor, csLog,
                 summary, root, createCall, exportIn, exportRun>>

\* auto_download_list.rs:58-67
AutoRemoveSite ==
  /\ \E stn \in AutoStations :
       LET res == RemoveSite(autoDl, stn)
       IN  /\ autoDl' = res.rows
           /\ autoCall' = [op |-> "remove_site", stn |-> stn, ok |-> res.ok,
                           before |-> autoDl]
  /\ UNCHANGED <<inSites, inModels, inStart, inEnd, now, mainPc, genPc, todo,
                 taken, dlq, inflight, fDone, fPanicked, saveq, persPc, printq,
                 missing, files, blobs, ids, emitted, started, handled, files0,
                 missing0, reported, fixPc, idxWorker, dataWorker, adding,
                 blobs0, intact, quiet, climoIn, fire, locations, inventory,
                 maxRows, climoPc, climoTodo, climoCur, builds, store0,
                 fireLog, climoArch, csExists, stage, chan, monitor, csLog,
                 summary, root, createCall, exportIn, exportRun>>

NextAuto ==
  \/ AutoAddSite
  \/ AutoRemoveSite

SpecAuto == InitAuto /\ [][NextAuto]_vars

----------------------------------------------------------------------------
(* The climatology build: climo/mod.rs *)

\* Option and Result values
Some(v) == [some |-> TRUE, v |-> v]

None == [some |-> FALSE, v |-> 0]

UnwrapOr(opt, default) == IF opt.some THEN opt.v ELSE default

\* 3000-12-31T00Z, climo/mod.rs:35
EmptyRangeStart == 8588592

\* 1900-01-01T00Z, climo/mod.rs:36
EmptyRangeEnd == -1062552

\* chrono's year(), month(), day() and hour() of a time given in hours since
\* 2021-03-20T00Z, which is day 18706 of the era that starts at 1970-01-01
Components(t) ==
  LET z   == (t \div 24) + 18706 + 719468
      era == z \div 146097
      doe == z - era * 146097
      yoe == (doe - doe \div 1460 + doe \div 36524 - doe \div 146096) \div 365
      doy == doe - (365 * yoe + yoe \div 4 - yoe \div 100)
      mp  == (5 * doy + 2) \div 153
      m   == IF mp < 10 THEN mp + 3 ELSE mp - 9
  IN  [year |-> yoe + era * 400 + (IF m <= 2 THEN 1 ELSE 0), month |-> m,
       day |-> doy - (153 * mp + 2) \div 5 + 1, hour |-> t % 24]

\* the UTC offset of a site in hours, 0 for a site that has none
UtcOffset(site) == IF Upper[site] = "KMSO" THEN -7 ELSE 0

\* one analysis of a parsed file: what the build reads of it
Anal(lead, valid_time, hdw) ==
  [lead_time |-> lead, valid_time |-> valid_time, hdw |-> hdw,
   haines_low |-> Some(5), haines_mid |-> Some(4), haines_high |-> Some(3),
   location |-> Some(<<46, -114, 972>>)]

\* a file of the archive: its analyses, None for a file that does not parse
ClimoFile(init_time, retrieved, anals) ==
  [init_time |-> init_time, retrieved |-> retrieved, anals |-> anals]

\* a file with an analysis every step hours, n of them
Regular(init_time, step, n) ==
  ClimoFile(init_time, TRUE,
            Some([k \in 1..n |-> Anal(Some(step * (k - 1)),
                                      Some(init_time + step * (k - 1)),
                                      Some(10 + k))]))

\* the builds of a behaviour
MaxBuilds == 3

\* the archives bufcli is run on, each for one site and one model
ClimoInputs ==
  LET file == Regular(-24, 1, 3)
      a2   == file.anals.v[2]
      With(anal) == ClimoFile(-24, TRUE, Some(<<file.anals.v[1], anal,
                                               file.anals.v[3]>>))
  IN  { \* no file at all, and one file of a model that runs every hour
        [site |-> "kmso", model |-> "GFS", files |-> <<>>],
        [site |-> "kmso", model |-> "NAM4KM", files |-> <<file>>],
        \* two runs with an analysis every hour
        [site |-> "kmso", model |-> "NAM",
         files |-> <<Regular(-24, 1, 8), Regular(-18, 1, 8)>>],
        \* a run with an analysis every three hours
        [site |-> "kmso", model |-> "GFS", files |-> <<Regular(-24, 3, 7)>>],
        \* analyses for which a computation fails or a value is missing
        [site |-> "kmpi", model |-> "NAM",
         files |-> <<With([a2 EXCEPT !.hdw = None])>>],
        [site |-> "kmpi", model |-> "GFS",
         files |-> <<With([a2 EXCEPT !.haines_low = None,
                                     !.haines_high = None])>>],
        [site |-> "kmpi", model |-> "NAM",
         files |-> <<With([a2 EXCEPT !.lead_time = None])>>],
        [site |-> "kmpi", model |-> "GFS",
         files |-> <<With([a2 EXCEPT !.valid_time = None,
                                     !.location = None])>>],
        \* a file that cannot be read and one that does not parse
        [site |-> "bon", model |-> "NAM",
         files |-> <<ClimoFile(-30, FALSE, None), ClimoFile(-24, TRUE, None),
                     Regular(-18, 1, 2)>>],
        \* the run of 2024-07-01T18Z
        [site |-> "kmso", model |-> "NAM", files |-> <<Regular(28794, 1, 6)>>],
        \* an archive that has gained two runs by the time of a later build,
        \* one between the runs it held and one after them
        [site |-> "kmso", model |-> "NAM",
         files |-> <<Regular(-24, 1, 8), Regular(-12, 1, 8)>>,
         later |-> <<Regular(-24, 1, 8), Regular(-18, 1, 8),
                     Regular(-12, 1, 8), Regular(-6, 1, 8)>>]
      }

\* the climatology store
Store ==
  [fire |-> fire, locations |-> locations, inventory |-> inventory,
   max |-> maxRows]

\* get_current_climo_date_range: the row of the inventory, or the clock twice
GetCurrentClimoDateRange(inv, site, model, t) ==
  IF \E r \in inv : r.site = site /\ r.model = model
    THEN LET r == CHOOSE x \in inv : x.site = site /\ x.model = model
         IN  [start_date |-> r.start_date, end_date |-> r.end_date]
    ELSE [start_date |-> t, end_date |-> t]

\* get_current_maximums: the row of max, or 0 at the time of the clock
GetCurrentMaximums(maxTable, site, model, t) ==
  IF \E r \in maxTable : r.site = site /\ r.model = model
    THEN LET r == CHOOSE x \in maxTable : x.site = site /\ x.model = model
         IN  [hdw |-> r.hdw, hdw_date |-> r.hdw_date]
    ELSE [hdw |-> 0, hdw_date |-> t]

\* the first n entries of a sequence: Iterator::take
Take(seq, n) == SubSeq(seq, 1, IF n < Len(seq) THEN n ELSE Len(seq))

\* climo/mod.rs:44-64: the analyses the loop of build_climo visits
AnalysesToVisit(archFiles, model, start_date, end_date) ==
  LET Visit(f) ==
        IF /\ (f.init_time < start_date \/ f.init_time > end_date)
           /\ f.retrieved
           /\ f.anals.some
          THEN LET cycle == Take(f.anals.v, HoursBetweenRuns(model))
               IN  [k \in 1..Len(cycle) |->
                      [init_time |-> f.init_time, anal |-> cycle[k]]]
          ELSE <<>>
  IN  FlatMap([k \in 1..Len(archFiles) |-> Visit(archFiles[k])], 1)

\* fire_stmt: INSERT OR REPLACE under the key (site, model, year, month, day,
\* hour), whose last four values are read off the valid time
FireRow(site, model, valid_time, hns_high, hns_mid, hns_low, hdw) ==
  LET c == Components(valid_time)
  IN  [site |-> site, model |-> model, year |-> c.year, month |-> c.month,
       day |-> c.day, hour |-> c.hour, haines_high |-> hns_high,
       haines_mid |-> hns_mid, haines_low |-> hns_low, hdw |-> hdw]

InsertOrReplaceFire(rows, row) ==
  {r \in rows : <<r.site, r.model, r.year, r.month, r.day, r.hour>> #
                  <<row.site, row.model, row.year, row.month, row.day,
                    row.hour>>} \cup {row}

\* location_stmt: INSERT OR IGNORE under UNIQUE(site, model, latitude,
\* longitude, elevation_m)
InsertOrIgnoreLocation(rows, site, model, start_date, loc) ==
  IF \E r \in rows : r.site = site /\ r.model = model /\ r.loc = loc
    THEN rows
    ELSE rows \cup {[site |-> site, model |-> model,
                     start_date |-> start_date, loc |-> loc]}

\* INSERT OR REPLACE under the key (site, model) of inventory and of max
InsertOrReplaceBySiteModel(rows, row) ==
  {r \in rows : r.site # row.site \/ r.model # row.model} \cup {row}

\* bufcli is started on an archive; the store does not exist yet
InitClimo ==
  /\ BufdnOff
  /\ autoDl = EmptyBag
  /\ autoCall = NoCall
  /\ climoIn \in ClimoInputs
  /\ fire = {}
  /\ locations = {}
  /\ inventory = {}
  /\ maxRows = {}
  /\ climoPc = "idle"
  /\ climoTodo = <<>>
  /\ climoCur = NoLocals
  /\ builds = 0
  /\ store0 = EmptyStore
  /\ fireLog = <<>>
  /\ PipelineOff
  /\ ToolsOff

\* climo/mod.rs:11-64: the store is opened, its range and maximum are read
\* and the iterator over the archive is built
ClimoStart ==
  /\ climoPc \in {"idle", "done", "failed"}
  /\ builds < MaxBuilds
  /\ LET site  == Upper[climoIn.site]
         range == GetCurrentClimoDateRange(inventory, site, climoIn.model,
                                           now)
         fresh == range.start_date = range.end_date
         top   == GetCurrentMaximums(maxRows, site, climoIn.model, now)
     IN  /\ climoCur' =
              [start_date |-> range.start_date, end_date |-> range.end_date,
               new_start_date |-> IF fresh THEN EmptyRangeStart
                                           ELSE range.start_date,
               new_end_date |-> IF fresh THEN EmptyRangeEnd
                                         ELSE range.end_date,
               hdw_max |-> top.hdw, hdw_max_date |-> top.hdw_date]
         /\ climoTodo' = AnalysesToVisit(climoIn.files, climoIn.model,
                                         range.start_date, range.end_date)
  /\ now' = now + 1
  /\ climoPc' = "run"
  /\ builds' = builds + 1
  /\ store0' = Store
  /\ fireLog' = <<>>
  /\ UNCHANGED <<inSites, inModels, inStart, inEnd, mainPc, genPc, todo, taken,
                 dlq, inflight, fDone, fPanicked, saveq, persPc, printq,
                 missing, files, blobs, ids, autoDl, emitted, started, handled,
                 files0, missing0, reported, fixPc, idxWorker, dataWorker,
                 adding, blobs0, intact, quiet, autoCall, climoIn, fire,
                 locations, inventory, maxRows, climoArch, csExists, stage,
                 chan, monitor, csLog, summary, root, createCall, exportIn,
                 exportRun>>

\* climo/mod.rs:65-134: one pass of the loop
ClimoStep ==
  /\ climoPc = "run"
  /\ climoTodo # <<>>
  /\ climoTodo' = Tail(climoTodo)
  /\ LET site == Upper[climoIn.site]
         item == Head(climoTodo)
         anal == item.anal
         vt   == anal.valid_time.v
         row  == FireRow(site, climoIn.model, vt,
                         UnwrapOr(anal.haines_high, 0),
                         UnwrapOr(anal.haines_mid, 0),
                         UnwrapOr(anal.haines_low, 0), anal.hdw.v)
         seen == [climoCur EXCEPT
                    !.new_end_date = IF vt > @ THEN vt ELSE @,
                    !.new_start_date = IF vt < @ THEN vt ELSE @]
     IN  IF ~anal.valid_time.some
           THEN UNCHANGED <<climoCur, climoPc, fire, locations, fireLog>>
           ELSE IF ~anal.hdw.some
             THEN /\ climoPc' = "failed"
                  /\ climoCur' = seen
                  /\ UNCHANGED <<fire, locations, fireLog>>
             ELSE /\ climoCur' =
                       IF anal.hdw.v >= seen.hdw_max
                         THEN [seen EXCEPT !.hdw_max = anal.hdw.v,
                                           !.hdw_max_date = vt]
                         ELSE seen
                  /\ fire' = InsertOrReplaceFire(fire, row)
                  /\ LET stop == anal.lead_time.some /\ anal.lead_time.v # 0
                         put  == ~stop /\ anal.location.some
                     IN  /\ locations' =
                              IF put
                                THEN InsertOrIgnoreLocation(locations, site,
                                       climoIn.model, vt, anal.location.v)
                                ELSE locations
                         /\ fireLog' = Append(fireLog,
                              [init_time |-> item.init_time, anal |-> anal,
                               valid_time |-> vt, row |-> row,
                               location |-> put])
                  /\ UNCHANGED climoPc
  /\ UNCHANGED <<inSites, inModels, inStart, inEnd, now, mainPc, genPc, todo,
                 taken, dlq, inflight, fDone, fPanicked, saveq, persPc, printq,
                 missing, files, blobs, ids, autoDl, emitted, started, handled,
                 files0, missing0, reported, fixPc, idxWorker, dataWorker,
                 adding, blobs0, intact, quiet, autoCall, climoIn, inventory,
                 maxRows, builds, store0, climoArch, csExists, stage, chan,
                 monitor, csLog, summary, root, createCall, exportIn, exportRun>>

\* climo/mod.rs:136-155: the inventory and the maximum are written
ClimoEnd ==
  /\ climoPc = "run"
  /\ climoTodo = <<>>
  /\ climoPc' = "done"
  /\ LET site == Upper[climoIn.site]
     IN  /\ inventory' = InsertOrReplaceBySiteModel(inventory,
              [site |-> site, model |-> climoIn.model,
               start_date |-> climoCur.new_start_date,
               end_date |-> climoCur.new_end_date])
         /\ maxRows' = InsertOrReplaceBySiteModel(maxRows,
              [site |-> site, model |-> climoIn.model,
               hdw |-> climoCur.hdw_max, hdw_date |-> climoCur.hdw_max_date])
  /\ UNCHANGED <<inSites, inModels, inStart, inEnd, now, mainPc, genPc, todo,
                 taken, dlq, inflight, fDone, fPanicked, saveq, persPc, printq,
                 missing, files, blobs, ids, autoDl, emitted, started, handled,
                 files0, missing0, reported, fixPc, idxWorker, dataWorker,
                 adding, blobs0, intact, quiet, autoCall, climoIn, fire,
                 locations, climoTodo, climoCur, builds, store0, fireLog,
                 climoArch, csExists, stage, chan, monitor, csLog, summary,
                 root, createCall, exportIn, exportRun>>

\* between two builds the archive gains files: Archive::add, run by bufdn;
\* the result of the build before it is no longer that of the archive
ClimoArchiveAdd ==
  /\ climoPc \in {"done", "failed"}
  /\ "later" \in DOMAIN climoIn
  /\ climoIn' = [site |-> climoIn.site, model |-> climoIn.model,
                 files |-> climoIn.later]
  /\ climoPc' = "idle"
  /\ UNCHANGED <<inSites, inModels, inStart, inEnd, now, mainPc, genPc, todo,
                 taken, dlq, inflight, fDone, fPanicked, saveq, persPc, printq,
                 missing, files, blobs, ids, autoDl, emitted, started, handled,
                 files0, missing0, reported, fixPc, idxWorker, dataWorker,
                 adding, blobs0, intact, quiet, autoCall, fire, locations,
                 inventory, maxRows, climoTodo, climoCur, builds, store0,
                 fireLog, climoArch, csExists, stage, chan, monitor, csLog,
                 summary, root, createCall, exportIn, exportRun>>

NextClimo ==
  \/ ClimoStart
  \/ ClimoStep
  \/ ClimoEnd
  \/ ClimoArchiveAdd

SpecClimo == InitClimo /\ [][NextClimo]_vars

----------------------------------------------------------------------------
(* The climatology pipeline: bufcli/builder.rs, bufcli/climo_db.rs *)

\* the threads that hold a sender, with no sender of the error channel in
\* the writer thread
Senders_NoErrorSenderInWriter ==
  [c \in Channels |->
     CASE c = "filter_requests" -> {"entry"}
       [] c = "load_requests"   -> {"filter"}
       [] c = "parse_requests"  -> {"load"}
       [] c = "fire_requests"   -> {"parser"}
       [] c = "loc_requests"    -> {"fire"}
       [] c = "comp_notify"     -> {"loc"}
       [] c = "stats"           -> {"fire", "loc"}
       [] c = "parse_err"       -> {"parser"}
       [] OTHER                 -> Stages \ {"writer"}]

\* builder.rs:21-35, 38-77: the threads that hold a sender of each channel
Senders ==
  [c \in Channels |->
     CASE c = "filter_requests" -> {"entry"}
       [] c = "load_requests"   -> {"filter"}
       [] c = "parse_requests"  -> {"load"}
       [] c = "fire_requests"   -> {"parser"}
       [] c = "loc_requests"    -> {"fire"}
       [] c = "comp_notify"     -> {"loc"}
       [] c = "stats"           -> {"fire", "loc"}
       [] c = "parse_err"       -> {"parser"}
       [] OTHER                 -> Stages]

\* the channel a thread iterates over
Input ==
  [s \in Stages \ {"entry"} |->
     CASE s = "filter" -> "filter_requests"
       [] s = "load"   -> "load_requests"
       [] s = "parser" -> "parse_requests"
       [] s = "fire"   -> "fire_requests"
       [] s = "loc"    -> "loc_requests"
       [] s = "perr"   -> "parse_err"
       [] OTHER        -> "stats"]

\* the thread has returned
Exited(s) == stage[s].pc \in {"done", "failed"}

\* every sender of the channel was dropped
Closed(c) == \A s \in Senders[c] : Exited(s)

\* the process runs: build_climo has not returned
Running == monitor.pc \in {"loop", "join"}

\* a message on its way to a channel
To(c, m) == [to |-> c, msg |-> m]

\* ErrorMessage::DataError of a file or an analysis
DataError(time, err) == [kind |-> "DataError", time |-> time, err |-> err]

\* check_bail!: the error is sent as ErrorMessage::Critical and the thread
\* returns
Bail(s) ==
  [stage EXCEPT ![s] = [pc |-> "bail",
                        out |-> <<To("error", [kind |-> "Critical",
                                               by |-> s])>>]]

\* the thread goes on with the messages out to send
Goes(s, out) == [stage EXCEPT ![s] = [pc |-> "run", out |-> out]]

\* the thread waits in its for loop and a message is there
Ready(s) ==
  /\ Running
  /\ stage[s].pc = "run"
  /\ stage[s].out = <<>>
  /\ chan[Input[s]] # <<>>

\* the channels after the thread has taken its next message
Popped(s) == [chan EXCEPT ![Input[s]] = Tail(@)]

\* ClimoDBInterface::exists: the run has a row in the store
Exists(fireRows, site, model, init_time) ==
  \E r \in fireRows :
     r.site = site /\ r.model = model /\ r.valid_time = init_time

\* ClimoDBInterface::add_fire: INSERT OR REPLACE under the primary key
\* (site, valid_time, model, year, month, day, hour)
AddFire(rows, site, model, valid_time, hns_high_mid_low, hdw) ==
  LET c   == Components(valid_time)
      row == [site |-> site, model |-> model, valid_time |-> valid_time,
              year |-> c.year, month |-> c.month, day |-> c.day,
              hour |-> c.hour, haines_high |-> hns_high_mid_low[1],
              haines_mid |-> hns_high_mid_low[2],
              haines_low |-> hns_high_mid_low[3], hdw |-> hdw]
  IN  {r \in rows : <<r.site, r.valid_time, r.model>> #
                      <<site, valid_time, model>>} \cup {row}

\* ClimoDBInterface::add_location: INSERT OR IGNORE
AddLocation(rows, site, model, valid_time, loc) ==
  InsertOrIgnoreLocation(rows, site, model, valid_time, loc)

\* the archives the pipeline is run on, the operation of the command line
\* and the call that fails in the run, if one does
BuildInputs ==
  LET a1 == Anal(Some(0), Some(-24), Some(11))
      a2 == Anal(Some(1), Some(-23), Some(12))
      a3 == Anal(Some(6), Some(-18), Some(13))
      In(model, archFiles, fault) ==
        {[site |-> "kmso", model |-> model, files |-> archFiles,
          operation |-> op, fault |-> fault] : op \in {"build", "update"}}
  IN  \* a file that cannot be read, one that does not parse, a good one
      In("NAM", <<ClimoFile(-36, FALSE, None), ClimoFile(-30, TRUE, None),
                  ClimoFile(-24, TRUE, Some(<<a1>>))>>, "none")
        \cup
      \* an analysis beyond the cycle, and one without a lead time before
      \* one within the cycle
      In("GFS", <<ClimoFile(-24, TRUE, Some(<<a1, a3>>))>>, "none")
        \cup
      In("NAM", <<ClimoFile(-24, TRUE,
                    Some(<<a1, [a2 EXCEPT !.lead_time = None], a2>>))>>,
         "none")
        \cup
      \* values that are missing or cannot be computed
      In("NAM", <<ClimoFile(-24, TRUE,
                    Some(<<[a1 EXCEPT !.haines_mid = None,
                                      !.location = None],
                           [a2 EXCEPT !.hdw = None]>>))>>, "none")
        \cup
      In("NAM", <<ClimoFile(-24, TRUE,
                    Some(<<a1, [a2 EXCEPT !.valid_time = None]>>))>>, "none")
        \cup
      \* calls that fail: opening the store, writing to it, Archive::remove
      In("NAM", <<ClimoFile(-24, TRUE, Some(<<a1>>))>>, "connect_or_create")
        \cup
      In("NAM", <<ClimoFile(-24, TRUE, Some(<<a1>>))>>, "add_fire")
        \cup
      In("NAM", <<ClimoFile(-30, TRUE, None),
                  ClimoFile(-24, TRUE, Some(<<a1>>))>>, "remove")

\* bufcli is started on an archive; the store does not exist yet
InitBuild ==
  /\ BufdnOff
  /\ autoDl = EmptyBag
  /\ autoCall = NoCall
  /\ climoIn \in BuildInputs
  /\ fire = {}
  /\ locations = {}
  /\ inventory = {}
  /\ maxRows = {}
  /\ climoPc = "off"
  /\ climoTodo = <<>>
  /\ climoCur = NoLocals
  /\ builds = 0
  /\ store0 = EmptyStore
  /\ fireLog = <<>>
  /\ climoArch = {climoIn.files[k].init_time : k \in DOMAIN climoIn.files}
  /\ csExists = FALSE
  /\ stage = [s \in Stages |-> [pc |-> "off", out |-> <<>>]]
  /\ chan = [c \in Channels |-> <<>>]
  /\ monitor = [NoMonitor EXCEPT !.pc = "idle"]
  /\ csLog = <<>>
  /\ ToolsOff

\* builder.rs:16-83: the channels are made and the threads are spawned
BuildStart ==
  /\ monitor.pc \in {"idle", "done", "failed"}
  /\ builds < MaxBuilds
  /\ builds' = builds + 1
  /\ store0' = Store
  /\ csLog' = <<>>
  /\ chan' = [c \in Channels |-> <<>>]
  /\ stage' = [s \in Stages |->
                 [pc |-> IF s \in {"entry", "filter", "writer"}
                           THEN "start" ELSE "run",
                  out |-> <<>>]]
  /\ monitor' = [NoMonitor EXCEPT !.pc = "loop"]
  /\ UNCHANGED <<inSites, inModels, inStart, inEnd, now, mainPc, genPc, todo,
                 taken, dlq, inflight, fDone, fPanicked, saveq, persPc, printq,
                 missing, files, blobs, ids, autoDl, emitted, started, handled,
                 files0, missing0, reported, fixPc, idxWorker, dataWorker,
                 adding, blobs0, intact, quiet, autoCall, climoIn, fire,
                 locations, inventory, maxRows, climoPc, climoTodo, climoCur,
                 fireLog, climoArch, csExists, summary, root, createCall,
                 exportIn, exportRun>>

\* a thread sends the next of its messages, blocking while the channel is
\* full; a thread that bailed out returns after its message
Send ==
  /\ Running
  /\ \E s \in Stages :
       /\ stage[s].out # <<>>
       /\ LET next == Head(stage[s].out)
          IN  /\ Len(chan[next.to]) < CAPACITY
              /\ chan' = [chan EXCEPT ![next.to] = Append(@, next.msg)]
              /\ stage' = [stage EXCEPT
                             ![s].out = Tail(@),
                             ![s].pc = IF @ = "bail" THEN "failed" ELSE @]
  /\ UNCHANGED <<inSites, inModels, inStart, inEnd, now, mainPc, genPc, todo,
                 taken, dlq, inflight, fDone, fPanicked, saveq, persPc, printq,
                 missing, files, blobs, ids, autoDl, emitted, started, handled,
                 files0, missing0, reported, fixPc, idxWorker, dataWorker,
                 adding, blobs0, intact, quiet, autoCall, climoIn, fire,
                 locations, inventory, maxRows, climoPc, climoTodo, climoCur,
                 builds, store0, fireLog, climoArch, csExists, monitor, csLog,
                 summary, root, createCall, exportIn, exportRun>>

\* builder.rs:178-195: the init times of the archive, numbered
EntryStart ==
  /\ Running
  /\ stage["entry"].pc = "start"
  /\ LET times == SetToSeq(climoArch)
     IN  stage' = Goes("entry",
                       [k \in 1..Len(times) |->
                          To("filter_requests",
                             [kind |-> "Filter", num |-> k,
                              init_time |-> times[k]])])
  /\ UNCHANGED <<inSites, inModels, inStart, inEnd, now, mainPc, genPc, todo,
                 taken, dlq, inflight, fDone, fPanicked, saveq, persPc, printq,
                 missing, files, blobs, ids, autoDl, emitted, started, handled,
                 files0, missing0, reported, fixPc, idxWorker, dataWorker,
                 adding, blobs0, intact, quiet, autoCall, climoIn, fire,
                 locations, inventory, maxRows, climoPc, climoTodo, climoCur,
                 builds, store0, fireLog, climoArch, csExists, chan, monitor,
                 csLog, summary, root, createCall, exportIn, exportRun>>

\* builder.rs:213-214 and 519-520: ClimoDB::connect_or_create, which makes
\* climo.db and its tables when they are not there (climo_db.rs:25-81)
ConnectOrCreate(s) ==
  /\ Running
  /\ stage[s].pc = "start"
  /\ IF climoIn.fault = "connect_or_create"
       THEN /\ stage' = Bail(s)
            /\ UNCHANGED <<csExists, csLog>>
       ELSE /\ stage' = Goes(s, <<>>)
            /\ csExists' = TRUE
            /\ csLog' = IF csExists THEN csLog
                         ELSE Append(csLog, [by |-> s, op |-> "create"])

FilterConnect ==
  /\ ConnectOrCreate("filter")
  /\ UNCHANGED <<inSites, inModels, inStart, inEnd, now, mainPc, genPc, todo,
                 taken, dlq, inflight, fDone, fPanicked, saveq, persPc, printq,
                 missing, files, blobs, ids, autoDl, emitted, started, handled,
                 files0, missing0, reported, fixPc, idxWorker, dataWorker,
                 adding, blobs0, intact, quiet, autoCall, climoIn, fire,
                 locations, inventory, maxRows, climoPc, climoTodo, climoCur,
                 builds, store0, fireLog, climoArch, chan, monitor, summary,
                 root, createCall, exportIn, exportRun>>

WriterConnect ==
  /\ ConnectOrCreate("writer")
  /\ UNCHANGED <<inSites, inModels, inStart, inEnd, now, mainPc, genPc, todo,
                 taken, dlq, inflight, fDone, fPanicked, saveq, persPc, printq,
                 missing, files, blobs, ids, autoDl, emitted, started, handled,
                 files0, missing0, reported, fixPc, idxWorker, dataWorker,
                 adding, blobs0, intact, quiet, autoCall, climoIn, fire,
                 locations, inventory, maxRows, climoPc, climoTodo, climoCur,
                 builds, store0, fireLog, climoArch, chan, monitor, summary,
                 root, createCall, exportIn, exportRun>>

\* mutant of ForceRebuild: the operation is not looked at
ForceRebuild_Never == FALSE

\* builder.rs:18: force_rebuild
ForceRebuild == climoIn.operation = "build"

\* builder.rs:216-238
FilterStep ==
  /\ Ready("filter")
  /\ chan' = Popped("filter")
  /\ LET msg == Head(chan["filter_requests"])
     IN  stage' = Goes("filter",
           IF \/ ~Exists(fire, Upper[climoIn.site], climoIn.model,
                         msg.init_time)
              \/ ForceRebuild
             THEN <<To("load_requests", [msg EXCEPT !.kind = "Load"])>>
             ELSE <<>>)
  /\ UNCHANGED <<inSites, inModels, inStart, inEnd, now, mainPc, genPc, todo,
                 taken, dlq, inflight, fDone, fPanicked, saveq, persPc, printq,
                 missing, files, blobs, ids, autoDl, emitted, started, handled,
                 files0, missing0, reported, fixPc, idxWorker, dataWorker,
                 adding, blobs0, intact, quiet, autoCall, climoIn, fire,
                 locations, inventory, maxRows, climoPc, climoTodo, climoCur,
                 builds, store0, fireLog, climoArch, csExists, monitor, csLog,
                 summary, root, createCall, exportIn, exportRun>>

\* Archive::retrieve: the content of the file of the archive
Retrieve(init_time) ==
  LET f == CHOOSE x \in {climoIn.files[k] : k \in DOMAIN climoIn.files} :
                     x.init_time = init_time
  IN  IF init_time \in climoArch /\ f.retrieved THEN Some(f.anals) ELSE None

\* builder.rs:257-285
LoadStep ==
  /\ Ready("load")
  /\ chan' = Popped("load")
  /\ LET msg  == Head(chan["load_requests"])
         data == Retrieve(msg.init_time)
     IN  stage' = Goes("load",
           IF data.some
             THEN <<To("parse_requests",
                       [kind |-> "Parse", num |-> msg.num,
                        init_time |-> msg.init_time, data |-> data.v])>>
             ELSE <<To("error", DataError(msg.init_time, "retrieve"))>>)
  /\ UNCHANGED <<inSites, inModels, inStart, inEnd, now, mainPc, genPc, todo,
                 taken, dlq, inflight, fDone, fPanicked, saveq, persPc, printq,
                 missing, files, blobs, ids, autoDl, emitted, started, handled,
                 files0, missing0, reported, fixPc, idxWorker, dataWorker,
                 adding, blobs0, intact, quiet, autoCall, climoIn, fire,
                 locations, inventory, maxRows, climoPc, climoTodo, climoCur,
                 builds, store0, fireLog, climoArch, csExists, monitor, csLog,
                 summary, root, createCall, exportIn, exportRun>>

RECURSIVE TakeWhileInCycle(_, _)
\* builder.rs:319-325: the analyses up to the first one whose lead time is
\* unknown or not less than hours_between_runs
TakeWhileInCycle(anals, model) ==
  IF anals = <<>> THEN <<>>
  ELSE IF /\ Head(anals).lead_time.some
          /\ Head(anals).lead_time.v < HoursBetweenRuns(model)
         THEN <<Head(anals)>> \o TakeWhileInCycle(Tail(anals), model)
         ELSE <<>>

\* builder.rs:300-348
ParserStep ==
  /\ Ready("parser")
  /\ chan' = Popped("parser")
  /\ LET msg   == Head(chan["parse_requests"])
         cycle == TakeWhileInCycle(msg.data.v, climoIn.model)
     IN  stage' = Goes("parser",
           IF ~msg.data.some
             THEN <<To("parse_err", DataError(msg.init_time, "parse"))>>
             ELSE [k \in 1..Len(cycle) |->
                     IF cycle[k].valid_time.some
                       THEN To("fire_requests",
                               [kind |-> "Fire", num |-> msg.num,
                                valid_time |-> cycle[k].valid_time.v,
                                anal |-> cycle[k]])
                       ELSE To("error", DataError(msg.init_time,
                                                  "No valid time."))])
  /\ UNCHANGED <<inSites, inModels, inStart, inEnd, now, mainPc, genPc, todo,
                 taken, dlq, inflight, fDone, fPanicked, saveq, persPc, printq,
                 missing, files, blobs, ids, autoDl, emitted, started, handled,
                 files0, missing0, reported, fixPc, idxWorker, dataWorker,
                 adding, blobs0, intact, quiet, autoCall, climoIn, fire,
                 locations, inventory, maxRows, climoPc, climoTodo, climoCur,
                 builds, store0, fireLog, climoArch, csExists, monitor, csLog,
                 summary, root, createCall, exportIn, exportRun>>

\* builder.rs:363-416
FireStep ==
  /\ Ready("fire")
  /\ chan' = Popped("fire")
  /\ LET msg  == Head(chan["fire_requests"])
         anal == msg.anal
     IN  stage' = Goes("fire",
           IF ~anal.hdw.some
             THEN <<To("error", DataError(msg.valid_time, "hdw"))>>
             ELSE <<To("stats",
                       [kind |-> "Fire", valid_time |-> msg.valid_time,
                        hns_low |-> UnwrapOr(anal.haines_low, 0),
                        hns_mid |-> UnwrapOr(anal.haines_mid, 0),
                        hns_high |-> UnwrapOr(anal.haines_high, 0),
                        hdw |-> anal.hdw.v]),
                    To("loc_requests", [msg EXCEPT !.kind = "Location"])>>)
  /\ UNCHANGED <<inSites, inModels, inStart, inEnd, now, mainPc, genPc, todo,
                 taken, dlq, inflight, fDone, fPanicked, saveq, persPc, printq,
                 missing, files, blobs, ids, autoDl, emitted, started, handled,
                 files0, missing0, reported, fixPc, idxWorker, dataWorker,
                 adding, blobs0, intact, quiet, autoCall, climoIn, fire,
                 locations, inventory, maxRows, climoPc, climoTodo, climoCur,
                 builds, store0, fireLog, climoArch, csExists, monitor, csLog,
                 summary, root, createCall, exportIn, exportRun>>

\* builder.rs:431-478
LocStep ==
  /\ Ready("loc")
  /\ chan' = Popped("loc")
  /\ LET msg  == Head(chan["loc_requests"])
         anal == msg.anal
         done == To("comp_notify", [kind |-> "Completed", num |-> msg.num])
     IN  stage' = Goes("loc",
           IF anal.lead_time.some /\ anal.lead_time.v # 0
             THEN <<done>>
             ELSE IF anal.location.some
               THEN <<To("stats",
                         [kind |-> "Location", valid_time |-> msg.valid_time,
                          loc |-> anal.location.v]), done>>
               ELSE <<To("error",
                         DataError(msg.valid_time,
                                   "Missing location information.")), done>>)
  /\ UNCHANGED <<inSites, inModels, inStart, inEnd, now, mainPc, genPc, todo,
                 taken, dlq, inflight, fDone, fPanicked, saveq, persPc, printq,
                 missing, files, blobs, ids, autoDl, emitted, started, handled,
                 files0, missing0, reported, fixPc, idxWorker, dataWorker,
                 adding, blobs0, intact, quiet, autoCall, climoIn, fire,
                 locations, inventory, maxRows, climoPc, climoTodo, climoCur,
                 builds, store0, fireLog, climoArch, csExists, monitor, csLog,
                 summary, root, createCall, exportIn, exportRun>>

\* the handler that removes nothing
Removed_Nothing(arch, msg) == arch

\* builder.rs:497-499: the file of a DataError message is removed from the
\* archive
Removed(arch, msg) ==
  IF msg.kind = "DataError" THEN arch \ {msg.time} ELSE arch

\* builder.rs:496-503: Archive::remove of the file, then the message is
\* passed on
PerrStep ==
  /\ Ready("perr")
  /\ chan' = Popped("perr")
  /\ LET msg == Head(chan["parse_err"])
     IN  IF climoIn.fault = "remove"
           THEN /\ stage' = Bail("perr")
                /\ UNCHANGED climoArch
           ELSE /\ stage' = Goes("perr", <<To("error", msg)>>)
                /\ climoArch' = Removed(climoArch, msg)
  /\ UNCHANGED <<inSites, inModels, inStart, inEnd, now, mainPc, genPc, todo,
                 taken, dlq, inflight, fDone, fPanicked, saveq, persPc, printq,
                 missing, files, blobs, ids, autoDl, emitted, started, handled,
                 files0, missing0, reported, fixPc, idxWorker, dataWorker,
                 adding, blobs0, intact, quiet, autoCall, climoIn, fire,
                 locations, inventory, maxRows, climoPc, climoTodo, climoCur,
                 builds, store0, fireLog, csExists, monitor, csLog, summary,
                 root, createCall, exportIn, exportRun>>

\* builder.rs:522-554
WriterStep ==
  /\ Ready("writer")
  /\ chan' = Popped("writer")
  /\ LET msg  == Head(chan["stats"])
         site == Upper[climoIn.site]
     IN  IF msg.kind = "Fire"
           THEN IF climoIn.fault = "add_fire"
                  THEN /\ stage' = Bail("writer")
                       /\ UNCHANGED <<fire, locations, csLog>>
                  ELSE /\ stage' = Goes("writer", <<>>)
                       /\ fire' = AddFire(fire, site, climoIn.model,
                                          msg.valid_time,
                                          <<msg.hns_high, msg.hns_mid,
                                            msg.hns_low>>, msg.hdw)
                       /\ csLog' = Append(csLog, [by |-> "writer",
                                                  op |-> "add_fire"])
                       /\ UNCHANGED locations
           ELSE /\ stage' = Goes("writer", <<>>)
                /\ locations' = AddLocation(locations, site, climoIn.model,
                                            msg.valid_time, msg.loc)
                /\ csLog' = Append(csLog, [by |-> "writer",
                                           op |-> "add_location"])
                /\ UNCHANGED fire
  /\ UNCHANGED <<inSites, inModels, inStart, inEnd, now, mainPc, genPc, todo,
                 taken, dlq, inflight, fDone, fPanicked, saveq, persPc, printq,
                 missing, files, blobs, ids, autoDl, emitted, started, handled,
                 files0, missing0, reported, fixPc, idxWorker, dataWorker,
                 adding, blobs0, intact, quiet, autoCall, climoIn, inventory,
                 maxRows, climoPc, climoTodo, climoCur, builds, store0,
                 fireLog, climoArch, csExists, monitor, summary, root,
                 createCall, exportIn, exportRun>>

\* the for loop of a thread ends when its channel is empty and closed; the
\* loop of the entry point ends with its last message
StageEnd ==
  /\ Running
  /\ \E s \in Stages :
       /\ stage[s].pc = "run"
       /\ stage[s].out = <<>>
       /\ s # "entry" => chan[Input[s]] = <<>> /\ Closed(Input[s])
       /\ stage' = [stage EXCEPT ![s].pc = "done"]
  /\ UNCHANGED <<inSites, inModels, inStart, inEnd, now, mainPc, genPc, todo,
                 taken, dlq, inflight, fDone, fPanicked, saveq, persPc, printq,
                 missing, files, blobs, ids, autoDl, emitted, started, handled,
                 files0, missing0, reported, fixPc, idxWorker, dataWorker,
                 adding, blobs0, intact, quiet, autoCall, climoIn, fire,
                 locations, inventory, maxRows, climoPc, climoTodo, climoCur,
                 builds, store0, fireLog, climoArch, csExists, chan, monitor,
                 csLog, summary, root, createCall, exportIn, exportRun>>

\* builder.rs:86-97: select! takes a message of the error channel
MonitorError ==
  /\ monitor.pc = "loop"
  /\ chan["error"] # <<>>
  /\ chan' = [chan EXCEPT !["error"] = Tail(@)]
  /\ LET msg == Head(chan["error"])
     IN  monitor' =
           IF msg.kind = "Critical"
             THEN [monitor EXCEPT !.pc = "failed"]
             ELSE [monitor EXCEPT !.data_errors = Append(@, msg)]
  /\ UNCHANGED <<inSites, inModels, inStart, inEnd, now, mainPc, genPc, todo,
                 taken, dlq, inflight, fDone, fPanicked, saveq, persPc, printq,
                 missing, files, blobs, ids, autoDl, emitted, started, handled,
                 files0, missing0, reported, fixPc, idxWorker, dataWorker,
                 adding, blobs0, intact, quiet, autoCall, climoIn, fire,
                 locations, inventory, maxRows, climoPc, climoTodo, climoCur,
                 builds, store0, fireLog, climoArch, csExists, stage, csLog,
                 summary, root, createCall, exportIn, exportRun>>

\* builder.rs:98-106: select! takes a message of the completion channel
MonitorCompleted ==
  /\ monitor.pc = "loop"
  /\ chan["comp_notify"] # <<>>
  /\ chan' = [chan EXCEPT !["comp_notify"] = Tail(@)]
  /\ monitor' = [monitor EXCEPT !.num = Head(chan["comp_notify"]).num]
  /\ UNCHANGED <<inSites, inModels, inStart, inEnd, now, mainPc, genPc, todo,
                 taken, dlq, inflight, fDone, fPanicked, saveq, persPc, printq,
                 missing, files, blobs, ids, autoDl, emitted, started, handled,
                 files0, missing0, reported, fixPc, idxWorker, dataWorker,
                 adding, blobs0, intact, quiet, autoCall, climoIn, fire,
                 locations, inventory, maxRows, climoPc, climoTodo, climoCur,
                 builds, store0, fireLog, climoArch, csExists, stage, csLog,
                 summary, root, createCall, exportIn, exportRun>>

\* builder.rs:94-96, 103: select! finds a channel at its end
MonitorEndOfStream ==
  /\ monitor.pc = "loop"
  /\ \/ /\ chan["error"] = <<>> /\ Closed("error")
        /\ ~monitor.error_done
        /\ monitor' = [monitor EXCEPT !.error_done = TRUE]
     \/ /\ chan["comp_notify"] = <<>> /\ Closed("comp_notify")
        /\ ~monitor.pipeline_done
        /\ monitor' = [monitor EXCEPT !.pipeline_done = TRUE]
  /\ UNCHANGED <<inSites, inModels, inStart, inEnd, now, mainPc, genPc, todo,
                 taken, dlq, inflight, fDone, fPanicked, saveq, persPc, printq,
                 missing, files, blobs, ids, autoDl, emitted, started, handled,
                 files0, missing0, reported, fixPc, idxWorker, dataWorker,
                 adding, blobs0, intact, quiet, autoCall, climoIn, fire,
                 locations, inventory, maxRows, climoPc, climoTodo, climoCur,
                 builds, store0, fireLog, climoArch, csExists, stage, chan,
                 csLog, summary, root, createCall, exportIn, exportRun>>

\* builder.rs:111-114: both are in, the loop is left
MonitorBreak ==
  /\ monitor.pc = "loop"
  /\ monitor.pipeline_done /\ monitor.error_done
  /\ monitor' = [monitor EXCEPT !.pc = "join"]
  /\ UNCHANGED <<inSites, inModels, inStart, inEnd, now, mainPc, genPc, todo,
                 taken, dlq, inflight, fDone, fPanicked, saveq, persPc, printq,
                 missing, files, blobs, ids, autoDl, emitted, started, handled,
                 files0, missing0, reported, fixPc, idxWorker, dataWorker,
                 adding, blobs0, intact, quiet, autoCall, climoIn, fire,
                 locations, inventory, maxRows, climoPc, climoTodo, climoCur,
                 builds, store0, fireLog, climoArch, csExists, stage, chan,
                 csLog, summary, root, createCall, exportIn, exportRun>>

\* builder.rs:131-142: the joins return when the threads have
MonitorJoin ==
  /\ monitor.pc = "join"
  /\ \A s \in Stages : Exited(s)
  /\ monitor' = [monitor EXCEPT !.pc = "done"]
  /\ UNCHANGED <<inSites, inModels, inStart, inEnd, now, mainPc, genPc, todo,
                 taken, dlq, inflight, fDone, fPanicked, saveq, persPc, printq,
                 missing, files, blobs, ids, autoDl, emitted, started, handled,
                 files0, missing0, reported, fixPc, idxWorker, dataWorker,
                 adding, blobs0, intact, quiet, autoCall, climoIn, fire,
                 locations, inventory, maxRows, climoPc, climoTodo, climoCur,
                 builds, store0, fireLog, climoArch, csExists, stage, chan,
                 csLog, summary, root, createCall, exportIn, exportRun>>

NextBuild ==
  \/ BuildStart
  \/ Send
  \/ EntryStart
  \/ FilterConnect
  \/ WriterConnect
  \/ FilterStep
  \/ LoadStep
  \/ ParserStep
  \/ FireStep
  \/ LocStep
  \/ PerrStep
  \/ WriterStep
  \/ StageEnd
  \/ MonitorError
  \/ MonitorCompleted
  \/ MonitorEndOfStream
  \/ MonitorBreak
  \/ MonitorJoin

SpecBuild == InitBuild /\ [][NextBuild]_vars

\* the threads run whenever they can, and so does the loop of build_climo
SpecBuildLive == SpecBuild /\ WF_vars(NextBuild)

----------------------------------------------------------------------------
(* The fire summary: ClimoDBInterface::calc_fire_summary, bufcli/climo_db.rs *)

\* climo_db.rs:251
DAYS_PER_MONTH == <<31, 28, 31, 30, 31, 30, 31, 31, 30, 31, 30, 31>>

RECURSIVE DaysBefore(_)
\* the days of 2019 before the first of the month
DaysBefore(month) ==
  IF month = 1 THEN 0 ELSE DaysBefore(month - 1) + DAYS_PER_MONTH[month - 1]

\* NaiveDate::from_ymd(2019, month, day) plus a number of days between -7 and
\* 7, as its month() and day(): the days around it in 2018 and in January
\* 2020 have the dates of 2019
PlusDays(month, day, n) ==
  LET doy == ((DaysBefore(month) + day + n - 1 + 365) % 365) + 1
      m   == CHOOSE k \in 1..12 :
               DaysBefore(k) < doy /\ doy <= DaysBefore(k) + DAYS_PER_MONTH[k]
  IN  [month |-> m, day |-> doy - DaysBefore(m)]

\* climo_db.rs:268-275 and 315-322: the row is of a day between first and
\* last
InWindow(row, first, last) ==
  \/ first.month = last.month /\ row.month = first.month
       /\ row.day >= first.day /\ row.day <= last.day
  \/ first.month # last.month /\ row.month = first.month
       /\ row.day >= first.day
  \/ first.month # last.month /\ row.month = last.month
       /\ row.day <= last.day

\* hdw_stmt: SELECT month, day, MAX(hdw) .. GROUP BY year, month, day
DailyMaxHdw(rows, site, model) ==
  LET mine == {r \in rows : r.site = site /\ r.model = model}
      days == {<<r.year, r.month, r.day>> : r \in mine}
  IN  {[year |-> d[1], month |-> d[2], day |-> d[3],
        hdw |-> CHOOSE h \in {r.hdw : r \in {x \in mine :
                                  <<x.year, x.month, x.day>> = d}} :
                  \A r \in mine : <<r.year, r.month, r.day>> = d => r.hdw <= h]
         : d \in days}

\* haines_stmt: the rows of the site and model with hour = 0
EveningHaines(rows, site, model) ==
  {r \in rows : r.site = site /\ r.model = model /\ r.hour = 0}

RECURSIVE AscendingHdw(_)
\* ORDER BY hdw ASC: the values of the daily rows, smallest first
AscendingHdw(daily) ==
  IF daily = {} THEN <<>>
  ELSE LET least == CHOOSE r \in daily : \A q \in daily : r.hdw <= q.hdw
       IN  <<least.hdw>> \o AscendingHdw(daily \ {least})

\* pct_idx: ((len - 1) as f32 / 100.0 * pctl as f32).round(), which rounds a
\* half away from zero
PctIdx(pctl, len) == ((len - 1) * pctl * 2 + 100) \div 200

\* the relative frequency of each of the values 0, 2, 3, 4, 5, 6: the count
\* and what it is divided by (0 / 0 is a NaN)
HainesPcts(values) ==
  [k \in 1..6 |->
     [count |-> Cardinality({i \in DOMAIN values :
                               values[i] = <<0, 2, 3, 4, 5, 6>>[k]}),
      of |-> Len(values)]]

\* climo_db.rs:254-392: one pass of the inner loop, None when no daily row
\* lies in the window
SummaryRow(rows, site, model, month, day) ==
  LET first    == PlusDays(month, day, -7)
      last     == PlusDays(month, day, 7)
      hdw_vals == AscendingHdw({r \in DailyMaxHdw(rows, site, model) :
                                  InWindow(r, first, last)})
      evening  == SetToSeq({r \in EveningHaines(rows, site, model) :
                              InWindow(r, first, last)})
      len      == Len(hdw_vals)
  IN  IF hdw_vals = <<>> THEN None
      ELSE Some([month |-> month, day |-> day,
                 hdw_pcts |-> [k \in 1..11 |->
                                 IF k = 1 THEN hdw_vals[1]
                                 ELSE IF k = 11 THEN hdw_vals[len]
                                 ELSE hdw_vals[PctIdx(10 * (k - 1), len) + 1]],
                 haines_low_pcts  |-> HainesPcts([i \in DOMAIN evening |->
                                                   evening[i].haines_low]),
                 haines_mid_pcts  |-> HainesPcts([i \in DOMAIN evening |->
                                                   evening[i].haines_mid]),
                 haines_high_pcts |-> HainesPcts([i \in DOMAIN evening |->
                                                   evening[i].haines_high]),
                 num_samples |-> len])

\* a fire row as add_fire writes it
SummaryFire(valid_time, hdw) == FireRow("KMSO", "GFS", valid_time, 3, 4, 5, hdw)

\* the stores the summary is asked of: none of them holds a Haines value
\* other than 0, 2, 3, 4, 5, 6
SummaryInputs ==
  LET spread(hour) == {SummaryFire(240 * k + hour, 10 + (k % 7)) : k \in 0..36}
  IN  { \* nothing, and one day only
        {},
        {SummaryFire(0, 11)},
        \* 00Z rows every tenth day over a year
        spread(0),
        \* the same with a February 29 (2024) and two rows of one day
        spread(0) \cup {SummaryFire(25824, 40), SummaryFire(12, 30)},
        \* no row of hour 0
        spread(12),
        \* a year of another site beside one day of this one
        {[r EXCEPT !.site = "KMPI"] : r \in spread(0)}
          \cup {SummaryFire(0, 11)} }

\* bufcli asks for the summary of KMSO and GFS on a store
InitSummary ==
  /\ BufdnOff
  /\ autoDl = EmptyBag
  /\ autoCall = NoCall
  /\ climoIn = NoBuild
  /\ fire \in SummaryInputs
  /\ locations = {}
  /\ inventory = {}
  /\ maxRows = {}
  /\ climoPc = "off"
  /\ climoTodo = <<>>
  /\ climoCur = NoLocals
  /\ builds = 0
  /\ store0 = EmptyStore
  /\ fireLog = <<>>
  /\ PipelineOff
  /\ summary = [NoSummary EXCEPT !.pc = "idle"]
  /\ BkamOff

\* climo_db.rs:214-251: the two queries; no daily row at all is an error
SummaryStart ==
  /\ summary.pc = "idle"
  /\ summary' = [NoSummary EXCEPT
                   !.pc = IF DailyMaxHdw(fire, "KMSO", "GFS") = {}
                            THEN "err" ELSE "loop"]
  /\ UNCHANGED <<inSites, inModels, inStart, inEnd, now, mainPc, genPc, todo,
                 taken, dlq, inflight, fDone, fPanicked, saveq, persPc, printq,
                 missing, files, blobs, ids, autoDl, emitted, started, handled,
                 files0, missing0, reported, fixPc, idxWorker, dataWorker,
                 adding, blobs0, intact, quiet, autoCall, climoIn, fire,
                 locations, inventory, maxRows, climoPc, climoTodo, climoCur,
                 builds, store0, fireLog, climoArch, csExists, stage, chan,
                 monitor, csLog, root, createCall, exportIn, exportRun>>

\* climo_db.rs:253-392: one day of one month
SummaryStep ==
  /\ summary.pc = "loop"
  /\ summary.month <= 12
  /\ LET row == SummaryRow(fire, "KMSO", "GFS", summary.month, summary.day)
         last == summary.day = DAYS_PER_MONTH[summary.month]
     IN  summary' =
           IF ~row.some
             THEN [summary EXCEPT !.pc = "err"]
             ELSE [summary EXCEPT
                     !.to_return = Append(@, row.v),
                     !.month = IF last THEN @ + 1 ELSE @,
                     !.day = IF last THEN 1 ELSE @ + 1]
  /\ UNCHANGED <<inSites, inModels, inStart, inEnd, now, mainPc, genPc, todo,
                 taken, dlq, inflight, fDone, fPanicked, saveq, persPc, printq,
                 missing, files, blobs, ids, autoDl, emitted, started, handled,
                 files0, missing0, reported, fixPc, idxWorker, dataWorker,
                 adding, blobs0, intact, quiet, autoCall, climoIn, fire,
                 locations, inventory, maxRows, climoPc, climoTodo, climoCur,
                 builds, store0, fireLog, climoArch, csExists, stage, chan,
                 monitor, csLog, root, createCall, exportIn, exportRun>>

\* climo_db.rs:395: Ok(to_return)
SummaryEnd ==
  /\ summary.pc = "loop"
  /\ summary.month > 12
  /\ summary' = [summary EXCEPT !.pc = "ok"]
  /\ UNCHANGED <<inSites, inModels, inStart, inEnd, now, mainPc, genPc, todo,
                 taken, dlq, inflight, fDone, fPanicked, saveq, persPc, printq,
                 missing, files, blobs, ids, autoDl, emitted, started, handled,
                 files0, missing0, reported, fixPc, idxWorker, dataWorker,
                 adding, blobs0, intact, quiet, autoCall, climoIn, fire,
                 locations, inventory, maxRows, climoPc, climoTodo, climoCur,
                 builds, store0, fireLog, climoArch, csExists, stage, chan,
                 monitor, csLog, root, createCall, exportIn, exportRun>>

NextSummary ==
  \/ SummaryStart
  \/ SummaryStep
  \/ SummaryEnd

SpecSummary == InitSummary /\ [][NextSummary]_vars

----------------------------------------------------------------------------
(* bkam create: bkam/create.rs *)

\* the calls of bkam create in a behaviour
MaxCreates == 4

\* Archive::connect: the index is opened and its schema version validated
Connect(tree) == [ok |-> tree.dir /\ tree.index = "valid"]

\* std::fs::remove_dir_all
RemoveDirAll(tree) == NoRoot

\* Archive::create_new: the root directory, the data directory and an empty
\* index are made; a root that is already initialised is rejected
CreateNew(tree) ==
  IF tree.index # "none"
    THEN [ok |-> FALSE, root |-> tree]
    ELSE [ok |-> TRUE, root |-> [tree EXCEPT !.dir = TRUE, !.index = "valid"]]

\* the archive is never removed
RemovesRoot_Always(already_exists, force) == already_exists

\* create.rs:15: the existing archive is removed first
RemovesRoot(already_exists, force) == already_exists /\ force

\* create.rs:7-27
Create(tree, force) ==
  LET already_exists == Connect(tree).ok
  IN  IF RemovesRoot(already_exists, force)
        THEN CreateNew(RemoveDirAll(tree))
      ELSE IF already_exists
        THEN [ok |-> FALSE, root |-> tree]
        ELSE CreateNew(tree)

\* what bkam create may find at the root: nothing, a directory that is no
\* archive, an index that does not connect, an archive without and with
\* files, without and with a climatology store beside them
RootPresets ==
  {NoRoot}
    \cup {[NoRoot EXCEPT !.dir = TRUE, !.others = o] :
            o \in {{}, {"notes"}, {"climo"}}}
    \cup {[NoRoot EXCEPT !.dir = TRUE, !.index = "other",
                         !.files = {FileRow(727730, "GFS", 72, 72)},
                         !.blobs = {BlobName(72)}]}
    \cup {[dir |-> TRUE, index |-> "valid", files |-> preset.files,
           blobs |-> preset.blobs, others |-> o] :
            preset \in ArchivePresets \cup {KmpiArchive, MovedArchive},
            o \in {{}, {"climo"}, {"climo", "notes"}}}

InitCreate ==
  /\ BufdnOff
  /\ autoDl = EmptyBag
  /\ ClimoOff
  /\ summary = NoSummary
  /\ root \in RootPresets
  /\ createCall = NoCreate
  /\ exportIn = NoExportArgs
  /\ exportRun = NoExport

\* bkam create, with or without --force
BkamCreate ==
  /\ createCall.n < MaxCreates
  /\ \E force \in BOOLEAN :
       LET res == Create(root, force)
       IN  /\ root' = res.root
           /\ createCall' = [n |-> createCall.n + 1, force |-> force,
                             ok |-> res.ok, before |-> root]
  /\ UNCHANGED <<inSites, inModels, inStart, inEnd, now, mainPc, genPc, todo,
                 taken, dlq, inflight, fDone, fPanicked, saveq, persPc, printq,
                 missing, files, blobs, ids, autoDl, emitted, started, handled,
                 files0, missing0, reported, fixPc, idxWorker, dataWorker,
                 adding, blobs0, intact, quiet, autoCall, climoIn, fire,
                 locations, inventory, maxRows, climoPc, climoTodo, climoCur,
                 builds, store0, fireLog, climoArch, csExists, stage, chan,
                 monitor, csLog, summary, exportIn, exportRun>>

NextCreate == BkamCreate

SpecCreate == InitCreate /\ [][NextCreate]_vars

----------------------------------------------------------------------------
(* bkam export: bkam/export.rs, and its earlier form in bkam.rs *)

\* Model::all_runs(&start, &end): the run times from start to end, oldest
\* first
ExportRuns(model, start, end) ==
  LET down == AllRuns(model, end, start)
  IN  [i \in 1..Len(down) |-> down[Len(down) + 1 - i]]

\* the init times the archive holds for the station and model
Inventory(fileTable, stn, model) ==
  {r.init_time : r \in {x \in fileTable : x.stn = stn /\ x.model = model}}

\* Archive::retrieve_most_recent and get_most_recent_valid_time: the latest
\* init time of the station and model
MostRecent(fileTable, stn, model) ==
  LET have == Inventory(fileTable, stn, model)
  IN  IF have = {} THEN None
      ELSE Some(CHOOSE t \in have : \A u \in have : u <= t)

\* export.rs:61-64: without --end the end date is the start date;
\* bkam.rs:601-607: without --end and with --start it is the most recent
\* time of the archive
EndDate(rev, start, end, latest) ==
  IF end.some THEN end
  ELSE IF rev = "bkam.rs" /\ start.some THEN latest
  ELSE start

\* export.rs:13-79 and bkam.rs:557-619 up to the loop: the init times to
\* export, or the way the command ends before it
ExportPlan(args) ==
  LET stns   == StationNumForId(args.ids, args.site, args.model)
      stn    == CHOOSE s \in stns : TRUE
      latest == MostRecent(args.files, stn, args.model)
      first  == IF args.rev = "bkam.rs" /\ ~args.start.some
                  THEN latest ELSE args.start
      last   == EndDate(args.rev, first, args.end, latest)
  IN  IF stns = {} THEN [pc |-> "bail", todo |-> <<>>]
      ELSE IF ~first.some
        THEN \* export.rs:67-70: the most recent file, under a name without
             \* a time; bkam.rs:596: no data for the site and model
             IF args.rev = "bkam.rs" THEN [pc |-> "bail", todo |-> <<>>]
             ELSE IF latest.some
               THEN [pc |-> "loop", todo |-> <<[init_time |-> latest.v,
                                                named |-> FALSE]>>]
               ELSE [pc |-> "err", todo |-> <<>>]
      ELSE IF ~last.some THEN [pc |-> "err", todo |-> <<>>]
      ELSE [pc |-> "loop",
            todo |-> LET runs == ExportRuns(args.model, first.v, last.v)
                     IN  [i \in DOMAIN runs |->
                            [init_time |-> runs[i], named |-> TRUE]]]

\* the archives of KMSO and GFS that bkam export is run on: four runs in a
\* row, three runs with one missing between them, no run
ExportArchives ==
  {[files |-> {FileRow(727730, "GFS", t, t) : t \in have},
    ids |-> {[site |-> "KMSO", model |-> "GFS", stn |-> 727730, mr |-> 78]}] :
     have \in {{60, 66, 72, 78}, {60, 72, 78}, {}}}
    \cup {[files |-> {}, ids |-> {}]}

\* --end requires --start
ExportInputs ==
  {[rev |-> rev, files |-> arch.files, ids |-> arch.ids, site |-> "kmso",
    model |-> "GFS", start |-> range[1], end |-> range[2]] :
     rev \in {"export.rs", "bkam.rs"}, arch \in ExportArchives,
     range \in {<<None, None>>}
                 \cup ({Some(t) : t \in {60, 66, 78, 84}}
                         \X {None, Some(84)})}

InitExport ==
  /\ BufdnOff
  /\ autoDl = EmptyBag
  /\ ClimoOff
  /\ summary = NoSummary
  /\ root = NoRoot
  /\ createCall = NoCreate
  /\ exportIn \in ExportInputs
  /\ exportRun = [NoExport EXCEPT !.pc = "idle"]

\* export.rs:13-66: the arguments are validated and the dates are set up
ExportStart ==
  /\ exportRun.pc = "idle"
  /\ LET plan == ExportPlan(exportIn)
     IN  exportRun' = [pc |-> plan.pc, todo |-> plan.todo, saved |-> <<>>]
  /\ UNCHANGED <<inSites, inModels, inStart, inEnd, now, mainPc, genPc, todo,
                 taken, dlq, inflight, fDone, fPanicked, saveq, persPc, printq,
                 missing, files, blobs, ids, autoDl, emitted, started, handled,
                 files0, missing0, reported, fixPc, idxWorker, dataWorker,
                 adding, blobs0, intact, quiet, autoCall, climoIn, fire,
                 locations, inventory, maxRows, climoPc, climoTodo, climoCur,
                 builds, store0, fireLog, climoArch, csExists, stage, chan,
                 monitor, csLog, summary, root, createCall, exportIn>>

\* export.rs:67-76: one file is retrieved and saved; retrieve fails for a run
\* the archive does not hold. bkam.rs:609-619: such a run is passed over
ExportStep ==
  /\ exportRun.pc = "loop"
  /\ exportRun.todo # <<>>
  /\ LET next == Head(exportRun.todo)
         stn  == CHOOSE s \in StationNumForId(exportIn.ids, exportIn.site,
                                               exportIn.model) : TRUE
         has  == FileExists(exportIn.files, stn, exportIn.model,
                            next.init_time)
     IN  exportRun' =
           IF has
             THEN [exportRun EXCEPT !.todo = Tail(@),
                                    !.saved = Append(@, next)]
           ELSE IF exportIn.rev = "bkam.rs"
             THEN [exportRun EXCEPT !.todo = Tail(@)]
             ELSE [exportRun EXCEPT !.pc = "err"]
  /\ UNCHANGED <<inSites, inModels, inStart, inEnd, now, mainPc, genPc, todo,
                 taken, dlq, inflight, fDone, fPanicked, saveq, persPc, printq,
                 missing, files, blobs, ids, autoDl, emitted, started, handled,
                 files0, missing0, reported, fixPc, idxWorker, dataWorker,
                 adding, blobs0, intact, quiet, autoCall, climoIn, fire,
                 locations, inventory, maxRows, climoPc, climoTodo, climoCur,
                 builds, store0, fireLog, climoArch, csExists, stage, chan,
                 monitor, csLog, summary, root, createCall, exportIn>>

\* export.rs:78: Ok(())
ExportEnd ==
  /\ exportRun.pc = "loop"
  /\ exportRun.todo = <<>>
  /\ exportRun' = [exportRun EXCEPT !.pc = "ok"]
  /\ UNCHANGED <<inSites, inModels, inStart, inEnd, now, mainPc, genPc, todo,
                 taken, dlq, inflight, fDone, fPanicked, saveq, persPc, printq,
                 missing, files, blobs, ids, autoDl, emitted, started, handled,
                 files0, missing0, reported, fixPc, idxWorker, dataWorker,
                 adding, blobs0, intact, quiet, autoCall, climoIn, fire,
                 locations, inventory, maxRows, climoPc, climoTodo, climoCur,
                 builds, store0, fireLog, climoArch, csExists, stage, chan,
                 monitor, csLog, summary, root, createCall, exportIn>>

NextExport ==
  \/ ExportStart
  \/ ExportStep
  \/ ExportEnd

SpecExport == InitExport /\ [][NextExport]_vars

----------------------------------------------------------------------------
(* Vocabulary of the properties *)

\* the bag of the entries of a sequence
SeqBag(s) ==
  [x \in {s[i] : i \in DOMAIN s} |-> Cardinality({i \in DOMAIN s : s[i] = x})]

\* the requests whose result the reporter has received, in order
ReportedReqs ==
  LET WithReq(m) == m.kind # "InitializationError"
      rs == SelectSeq(reported, WithReq)
  IN  [i \in DOMAIN rs |-> rs[i].req]

\* how many results of the given kinds the reporter has received
ReportedOf(kinds) ==
  Cardinality({i \in DOMAIN reported : reported[i].kind \in kinds})

ErrorKinds ==
  {"URLNotFound", "OtherURLStatus", "OtherDownloadError", "ParseError",
   "ArchiveError", "MissingUrlDbError", "InitializationError"}

\* a stage failed while it was set up
SetupFailure ==
  mainPc = "setupfail" \/ genPc = "failed" \/ persPc = "failed"

\* some thread panicked
SomePanic ==
  mainPc = "panicked" \/ genPc = "panicked" \/ persPc = "panicked"
    \/ fPanicked > 0

\* the loop of the reporter has been left
ReporterLoopEnded == mainPc \in {"done", "aborted", "panicked"}

\* every thread of the pipeline has ended
AllExited ==
  mainPc \in Ended /\ genPc \in Ended /\ FetchersClosed /\ persPc \in Ended

\* this step is the reporter receiving a result of one of the kinds
ReporterTakes(kinds) ==
  /\ mainPc = "loop"
  /\ printq # <<>>
  /\ reported' = Append(reported, Head(printq))
  /\ Head(printq).kind \in kinds

\* this step is the persister producing a result of one of the kinds
PersisterProduces(kinds) ==
  /\ Len(handled') = Len(handled) + 1
  /\ handled'[Len(handled')].out.kind \in kinds

----------------------------------------------------------------------------
(* C1 *)

\* C1: per-file errors never abort the pipeline. Unless a stage failed while
\* it was set up, the reporter never leaves its loop on an error, and when
\* it is done the results it received are those of exactly the requests the
\* generator emitted.
C1_PerFileErrorsNeverAbort ==
  ~SetupFailure =>
    /\ mainPc # "aborted"
    /\ mainPc = "done" => SeqBag(ReportedReqs) = SeqBag(emitted)

----------------------------------------------------------------------------
(* C2 *)

\* C2: when the reporter receives URLNotFound or ParseError, the url of the
\* request is inserted into MissingUrlDb if and only if init_time is strictly
\* more than 27 hours before the start of the reporter; otherwise
\* MissingUrlDb is left as it was.
C2_RecordedIffOlderThan27h ==
  [][ReporterTakes({"URLNotFound", "ParseError"}) =>
       LET m == Head(printq)
       IN  IF m.req.init_time < now - 27
             THEN missing' = missing \cup {m.req.url}
             ELSE missing' = missing]_vars

\* an old 404 was recorded and a 404 that is exactly 27 hours old was not
C2_Witness ==
  \E i, j \in DOMAIN reported :
    /\ reported[i].kind = "URLNotFound"
    /\ reported[i].req.init_time < now - 27
    /\ reported[i].req.url \in missing
    /\ reported[j].kind \in {"URLNotFound", "ParseError"}
    /\ reported[j].req.init_time = now - 27
    /\ reported[j].req.url \notin missing

----------------------------------------------------------------------------
(* C3 *)

TransientKinds == {"OtherURLStatus", "OtherDownloadError", "ArchiveError"}

\* the run of scenario S6: three requests, answered by a valid 200, a 404
\* for an init_time older than 27 hours, and another HTTP status
S6Run ==
  /\ mainPc = "done"
  /\ Len(emitted) = 3
  /\ Len(handled) = 3
  /\ \E a, b, c \in DOMAIN handled :
       /\ handled[a].in.kind = "BufkitFileAsString"
       /\ handled[a].out.kind = "Success"
       /\ handled[b].in.kind = "URLNotFound"
       /\ handled[b].in.req.init_time < now - 27
       /\ handled[c].in.kind = "OtherURLStatus"

\* exactly the url of the 404 is new in MissingUrlDb and exactly the row of
\* the valid payload is new in the index
S6Expected ==
  \E a, b \in DOMAIN handled :
    /\ handled[a].out.kind = "Success"
    /\ handled[b].in.kind = "URLNotFound"
    /\ missing \ missing0 = {handled[b].in.req.url}
    /\ missing0 \subseteq missing
    /\ Cardinality(files \ files0) = 1
    /\ Cardinality(files) = Cardinality(files0) + 1
    /\ \A r \in files \ files0 :
         /\ r.model = handled[a].in.req.model
         /\ r.init_time = handled[a].in.req.init_time

\* C3: a result of kind OtherURLStatus, OtherDownloadError or ArchiveError
\* is reported but never recorded: neither the persister producing it nor
\* the reporter receiving it changes MissingUrlDb or the index, whatever the
\* init_time; and after the run of scenario S6 exactly the url of the 404 is
\* new in MissingUrlDb and the index has gained exactly one row.
C3_TransientErrorsNotRecorded ==
  /\ [][ReporterTakes(TransientKinds) =>
          missing' = missing /\ files' = files]_vars
  /\ [][PersisterProduces(TransientKinds) =>
          missing' = missing /\ files' = files]_vars
  /\ [](S6Run => S6Expected)

\* the run of scenario S6 has ended, and the reporter has also received a
\* transient error for a request older than 27 hours in some run
C3_Witness ==
  /\ S6Run
  /\ ReportedOf({"OtherURLStatus"}) = 1

----------------------------------------------------------------------------
(* C4 *)

\* every request was answered with status 200, exactly one payload was
\* malformed, the archive accepted the others, and the run has ended
OneMalformedAmongValid ==
  /\ mainPc = "done"
  /\ persPc = "done"
  /\ \A i \in DOMAIN handled : handled[i].in.kind = "BufkitFileAsString"
  /\ Cardinality({i \in DOMAIN handled : ~handled[i].in.body.valid}) = 1
  /\ \A i \in DOMAIN handled : handled[i].out.kind # "ArchiveError"

\* C4: pipeline isolation. With one malformed payload among N valid ones, the
\* reporter receives exactly N Success results and exactly one error result,
\* one result for each emitted request, and every valid payload is in the
\* archive (its row in the index, its blob in the blob store).
C4_PipelineIsolation ==
  OneMalformedAmongValid =>
    /\ Len(reported) = Len(emitted)
    /\ SeqBag(ReportedReqs) = SeqBag(emitted)
    /\ ReportedOf({"Success"}) = Len(emitted) - 1
    /\ ReportedOf(ErrorKinds) = 1
    /\ \A i \in DOMAIN handled :
         handled[i].in.body.valid =>
           /\ FileRow(handled[i].in.body.stn, handled[i].in.req.model,
                      handled[i].in.body.init, handled[i].in.body.content)
                \in files
           /\ BlobName(handled[i].in.body.content) \in blobs

\* a run of three requests, one of them answered with a malformed payload
C4_Witness ==
  /\ OneMalformedAmongValid
  /\ Len(emitted) = 3
  /\ ReportedOf({"ParseError"}) = 1

----------------------------------------------------------------------------
(* C10 *)

\* the results that belong to a request, in their order
PerFileResults(results) ==
  LET IsPerFile(m) == m.kind # "InitializationError"
  IN  SelectSeq(results, IsPerFile)

SameSiteModel(r1, r2) ==
  Upper[r1.site_id] = Upper[r2.site_id] /\ r1.model = r2.model

\* C10 as claimed: of two requests of the same (site, model), the one with
\* the later init_time is handled by the persister, and reported, first.
C10_NewestFirstThroughPersister ==
  /\ \A i, j \in DOMAIN handled :
       (i < j /\ handled[i].out.kind # "InitializationError"
              /\ handled[j].out.kind # "InitializationError"
              /\ SameSiteModel(handled[i].out.req, handled[j].out.req))
         => handled[i].out.req.init_time >= handled[j].out.req.init_time
  /\ \A i, j \in DOMAIN ReportedReqs :
       (i < j /\ SameSiteModel(ReportedReqs[i], ReportedReqs[j]))
         => ReportedReqs[i].init_time >= ReportedReqs[j].init_time

\* C10 as amended: of two requests of the same (site, model), the one with
\* the later init_time is emitted by the generator and pulled by a fetcher
\* first, and the reporter receives the results in the order in which the
\* persister produced them.
C10_NewestFirstUntilFetched ==
  /\ \A i, j \in DOMAIN emitted :
       (i < j /\ SameSiteModel(emitted[i], emitted[j]))
         => emitted[i].init_time >= emitted[j].init_time
  /\ \A i, j \in DOMAIN started :
       (i < j /\ SameSiteModel(started[i], started[j]))
         => started[i].init_time >= started[j].init_time
  /\ LET rep == PerFileResults(reported)
         out == PerFileResults([i \in DOMAIN handled |-> handled[i].out])
     IN  /\ Len(rep) <= Len(out)
         /\ rep = SubSeq(out, 1, Len(rep))

\* two requests of one (site, model) with different init_times were pulled,
\* handled and reported
C10_Witness ==
  \E i, j \in DOMAIN reported :
    /\ i < j
    /\ reported[i].kind # "InitializationError"
    /\ reported[j].kind # "InitializationError"
    /\ SameSiteModel(reported[i].req, reported[j].req)
    /\ reported[i].req.init_time # reported[j].req.init_time
    /\ Len(started) >= 2

----------------------------------------------------------------------------
(* C5 *)

\* C5: invariant I1. In an archive in which every row had its blob, after
\* any interleaving of the steps of add, remove and clean, every file_hash
\* of a row of the index still has its blob in the blob store.
C5_ReferencedBlobsExist == intact => RowsHaveBlobs(files, blobs)

----------------------------------------------------------------------------
(* C6 *)

\* no file of the blob store is unreferenced
NoOrphanBlobs == \A b \in blobs : ~Unreferenced(files, b)

\* C6: when bkam fix has completed and nothing else has touched the archive
\* since it started, no blob is unreferenced and no row references a
\* missing blob; the rows whose blob was missing when it started are gone.
C6_CleanRemovesOrphans ==
  (fixPc = "done" /\ quiet) =>
    /\ NoOrphanBlobs
    /\ RowsHaveBlobs(files, blobs)
    /\ \A r \in files0 : r.hash \notin blobs0 => r \notin files

\* scenario S5: the only row had lost its blob, and after bkam fix the
\* inventory is empty
C6_Witness ==
  /\ fixPc = "done"
  /\ quiet
  /\ Cardinality(files0) = 1
  /\ blobs0 = {}
  /\ files = {}

----------------------------------------------------------------------------
(* C7 *)

\* C7: Pass B of bkam fix starts only when Pass A has visited every row and
\* its progress channel has reached its end, and the index is compacted
\* only when both passes have completed and both channels have.
C7_PassBAfterPassA ==
  [][/\ (dataWorker.pc = "off" /\ dataWorker'.pc # "off")
          => ProgressEnded(idxWorker) /\ idxWorker.left = {}
     /\ (fixPc # "done" /\ fixPc' = "done")
          => /\ ProgressEnded(idxWorker) /\ idxWorker.left = {}
             /\ ProgressEnded(dataWorker) /\ dataWorker.left = {}]_vars

\* bkam fix has completed on an archive left alone: Pass A deleted a row,
\* Pass B deleted a file, and the index has been compacted
C7_Witness ==
  /\ quiet
  /\ fixPc = "done"
  /\ files0 \ files # {}
  /\ blobs0 \ blobs # {}

----------------------------------------------------------------------------
(* C8 *)

\* once generator_tx is dropped every thread of the pipeline ends
CascadeTerminates == GeneratorClosed ~> AllExited

\* when the loop of the reporter has been left, the result of every request
\* the generator emitted has been received by the reporter
EmittedAreReported ==
  ReporterLoopEnded => SeqBag(ReportedReqs) = SeqBag(emitted)

\* C8: the pipeline terminates by the cascade of channel closures: once the
\* generator has dropped its sender, the fetchers, the persister and the
\* reporter eventually end, no stage stays blocked for ever, and every
\* request that was emitted is reported before the loop of the reporter
\* ends.
C8_ClosureCascade == CascadeTerminates /\ []EmittedAreReported

----------------------------------------------------------------------------
(* C9 *)

\* the number of stages given that failed while they were set up
FailedStages ==
  (IF genPc = "failed" THEN 1 ELSE 0) + (IF persPc = "failed" THEN 1 ELSE 0)

\* C9: when the generator or the persister fails while it is set up (and
\* run() itself goes on), it sends one InitializationError and ends; no
\* other thread panics, and when
\* the reporter is done it has received exactly the InitializationError of
\* each failed stage.
C9_SetupFailureDrains ==
  (FailedStages > 0 /\ mainPc \notin {"setupfail", "aborted"}) =>
    /\ ~SomePanic
    /\ mainPc = "done" => ReportedOf({"InitializationError"}) = FailedStages

----------------------------------------------------------------------------
(* C11 *)

\* C11: the generator emits its requests in non-increasing order of
\* init_time, whatever their sites and models are: no request is emitted
\* after a request of an older model run.
C11_EmittedNewestFirst ==
  \A i, j \in DOMAIN emitted :
     i < j => emitted[i].init_time >= emitted[j].init_time

\* requests of two sites and of two runs were emitted, the newer run first
C11_Witness ==
  \E i, j \in DOMAIN emitted :
     /\ i < j
     /\ emitted[i].init_time > emitted[j].init_time
     /\ emitted[i].site_id # emitted[j].site_id

----------------------------------------------------------------------------
(* C12 *)

\* the archive holds the file of a request: under the station number the
\* request carries, or under the station the archive binds its id to
InArchive(fileTable, idTable, req) ==
  \E s \in req.stn \cup StationNumForId(idTable, req.site_id, req.model) :
     FileExists(fileTable, s, req.model, req.init_time)

\* the request the generator emits in this step
NewRequest == emitted'[Len(emitted')]

\* C12: the generator never emits a request for a (site, model, init_time)
\* whose file is in the archive at the moment the request is generated,
\* whether the site is known by its id or by a station number.
C12_NoRequestForArchivedFile ==
  [][emitted' # emitted => ~InArchive(files, ids, NewRequest)]_vars

----------------------------------------------------------------------------
(* C13 *)

----------------------------------------------------------------------------
(* C14 *)

\* C14: no request is emitted for a combination that the rule set of the
\* adapter marks invalid (the model is not run for the site, the run is older
\* than the first run of the model, the site has ended or had not started),
\* in whatever letter case the site id reached the generator.
C14_NoInvalidCombination ==
  \A i \in DOMAIN emitted :
     LET req  == emitted[i]
         site == Lower[req.site_id]
     IN  /\ ~ModelSiteMismatch(site, req.model)
         /\ ~ModelInitTimeMismatch(req.model, req.init_time)
         /\ ~ExpiredSites(site, req.model, req.init_time)

\* the auto-download list gave the id KMPI in upper case for a window that
\* holds a run after the site ended: only the older run was requested
C14_Witness ==
  /\ inSites = <<>>
  /\ inEnd >= KmpiGfsEnded
  /\ genPc = "done"
  /\ Len(emitted) = 1
  /\ emitted[1].site_id = "KMPI"
  /\ emitted[1].init_time < KmpiGfsEnded

----------------------------------------------------------------------------
(* C15 *)

\* the adapters that accept an item of the download list
Accepting(item) ==
  {i \in DOMAIN Sources : SourceReqInfo(Sources[i], item) # {}}

\* C15: the adapters are tried in the order of the list: an item that no
\* adapter accepts yields no request, and a request that is emitted for an
\* item is the one of the first adapter that accepts the item, never the one
\* of a later adapter.
C15_FirstAcceptingSource ==
  [][(genPc = "run" /\ todo # <<>> /\ todo' = Tail(todo)) =>
       LET item == Head(todo)
       IN  IF Accepting(item) = {}
             THEN emitted' = emitted
             ELSE emitted' # emitted =>
                    \A i \in Accepting(item) :
                       (\A j \in Accepting(item) : i <= j) =>
                          NewRequest \in SourceReqInfo(Sources[i], item)]_vars

\* the list held items of the site bon, which the adapter declines for GFS,
\* between items it accepts: the accepted ones were requested, none of bon
C15_Witness ==
  /\ \E k \in DOMAIN inSites : inSites[k] = "bon"
  /\ genPc = "done"
  /\ Len(emitted) = 3
  /\ \A i \in DOMAIN emitted : emitted[i].site_id # "bon"

----------------------------------------------------------------------------
(* C16 *)

RECURSIVE CopiesOf(_, _)
\* how many copies of the elements of S a bag holds
CopiesOf(S, bag) ==
  IF S = {} THEN 0
  ELSE LET x == CHOOSE y \in S : TRUE
       IN  CopiesIn(x, bag) + CopiesOf(S \ {x}, bag)

\* the results for a request that have left the fetch of a fetcher: still
\* held by the fetcher, in the channel, or taken by the persister
ResultsFor(req) ==
  CopiesOf({m \in BagToSet(inflight) : m.req = req}, inflight)
    + Cardinality({i \in DOMAIN saveq : saveq[i].req = req})
    + Cardinality({i \in DOMAIN handled : handled[i].in.req = req})

\* how often a request was pulled by the fetchers
PulledTimes(req) == Cardinality({i \in DOMAIN started : started[i] = req})

\* the result of a request has the kind the response calls for
KindFollowsResponse(m, resp) ==
  LET out == FetchResult(m, resp)
  IN  /\ out.req = m.req
      /\ out.kind = "BufkitFileAsString" <=>
            (resp.sent /\ resp.status = 200 /\ resp.read)
      /\ out.kind = "URLNotFound" <=> (resp.sent /\ resp.status = 404)
      /\ out.kind = "OtherURLStatus" <=>
            (resp.sent /\ resp.status \notin {200, 404})
      /\ out.kind = "OtherDownloadError" <=>
            (~resp.sent \/ (resp.status = 200 /\ ~resp.read))

\* C16: for every request a fetcher pulls it produces exactly one result,
\* which carries that request: BufkitFileAsString iff the status is 200 and
\* the body was read, URLNotFound iff the status is 404, OtherURLStatus for
\* any other status, OtherDownloadError when the transport or the reading of
\* the body failed; a fetcher panics on no HTTP or transport error, only on
\* a send to the persister that has gone.
C16_OneResultPerRequest ==
  /\ [](\A i \in DOMAIN dlq :
          dlq[i].kind = "Request" =>
            \A resp \in Responses(dlq[i].req) :
               KindFollowsResponse(dlq[i], resp))
  /\ [](\A i \in DOMAIN started :
          /\ ResultsFor(started[i]) <= PulledTimes(started[i])
          /\ fPanicked = 0 => ResultsFor(started[i]) = PulledTimes(started[i]))
  /\ [][fPanicked' > fPanicked => ~PersisterAlive]_vars

\* three requests were pulled and answered with a file, a 404 and another
\* status, and the persister has taken the three results
C16_Witness ==
  /\ Len(started) = 3
  /\ {"BufkitFileAsString", "URLNotFound", "OtherURLStatus"}
       \subseteq {handled[i].in.kind : i \in DOMAIN handled}

----------------------------------------------------------------------------
(* C17 *)

\* the message the persister takes in this step, and its result
Taken == handled'[Len(handled')].in

Produced == handled'[Len(handled')].out

\* the add of the payload in hand is refused: its id is bound to another
\* station
AddRefusedIdMoved ==
  IdMovedStation(ids, Taken.req.site_id, Taken.req.model, Taken.body.stn,
                 Taken.body.init)

\* the row of the payload in hand is in the index after the step
RowCommitted ==
  FileRow(Taken.body.stn, Taken.req.model, Taken.body.init,
          Taken.body.content) \in files'

\* what both readings share: ParseError iff the payload does not parse or
\* lacks a valid time, and then add is not called; Success only with the
\* row committed; a failed add leaves the index as it was
TranslatesPayload ==
  /\ Produced.req = Taken.req
  /\ Produced.kind = "ParseError" <=> ~Taken.body.valid
  /\ Produced.kind = "ParseError" =>
        files' = files /\ blobs' = blobs /\ ids' = ids
  /\ Produced.kind = "Success" => RowCommitted
  /\ Produced.kind # "Success" => files' = files /\ ids' = ids

\* C17 as claimed: a BufkitFileAsString becomes exactly one of Success,
\* ParseError, ArchiveError and StationIdMoved: ParseError iff parsing or
\* the valid times failed, Success iff add succeeded, StationIdMoved when
\* add refused the payload because its id is bound to another station,
\* ArchiveError for any other failure of add.
C17_FourOutcomes ==
  [][(handled' # handled /\ Taken.kind = "BufkitFileAsString") =>
       /\ TranslatesPayload
       /\ Produced.kind \in {"Success", "ParseError", "ArchiveError",
                              "StationIdMoved"}
       /\ (Taken.body.valid /\ AddRefusedIdMoved) =>
             Produced.kind = "StationIdMoved"
       /\ Produced.kind = "ArchiveError" => ~AddRefusedIdMoved]_vars

\* C17 as amended: a BufkitFileAsString becomes exactly one of Success,
\* ParseError and ArchiveError: ParseError iff parsing or the valid times
\* failed, Success iff add succeeded, ArchiveError for every failure of
\* add, the refusal of an id bound to another station included.
C17_ThreeOutcomes ==
  [][(handled' # handled /\ Taken.kind = "BufkitFileAsString") =>
       /\ TranslatesPayload
       /\ Produced.kind \in {"Success", "ParseError", "ArchiveError"}
       /\ (Taken.body.valid /\ AddRefusedIdMoved) =>
             Produced.kind = "ArchiveError"]_vars

\* a payload that parses was refused by add because its id is bound to
\* another station, and the persister reported an ArchiveError
C17_Witness ==
  \E i \in DOMAIN handled :
     /\ handled[i].in.kind = "BufkitFileAsString"
     /\ handled[i].in.body.valid
     /\ handled[i].out.kind = "ArchiveError"
     /\ IdMovedStation(ids, handled[i].in.req.site_id,
                       handled[i].in.req.model, handled[i].in.body.stn,
                       handled[i].in.body.init)

----------------------------------------------------------------------------
(* C18 *)

\* the results the persister produced for its inputs, in the order of the
\* inputs
Outputs == [i \in DOMAIN handled |-> handled[i].out]

\* what the persister has sent to the reporter, in the order it was sent
SentToReporter == reported \o printq

\* C18: the persister passes every message that is not a BufkitFileAsString
\* on unchanged, produces one output for each input, about the same request,
\* and sends the outputs in the order of the inputs: what the reporter
\* receives is in the order in which the fetchers delivered to the persister.
\* Only the output in hand when the reporter has gone is not delivered, and
\* a persister that cannot connect sends its own error and takes no input.
C18_PersisterKeepsOrder ==
  /\ \A i \in DOMAIN handled :
        /\ handled[i].in.kind # "BufkitFileAsString" =>
              handled[i].out = handled[i].in
        /\ handled[i].out.req = handled[i].in.req
  /\ IF persPc = "failed"
        THEN handled = <<>>
        ELSE LET n == Len(SentToReporter)
             IN  /\ n <= Len(Outputs)
                 /\ SentToReporter = SubSeq(Outputs, 1, n)
                 /\ Len(Outputs) - n <= IF persPc = "panicked" THEN 1 ELSE 0

\* three results, one passed on unchanged and one translated, have reached
\* the reporter in the order the persister took them
C18_Witness ==
  /\ mainPc = "done"
  /\ Len(handled) = 3
  /\ reported = Outputs
  /\ handled[1].in.kind = "URLNotFound"
  /\ handled[2].in.kind = "BufkitFileAsString"
  /\ handled[2].out.kind = "Success"
  /\ handled[1].in.req # handled[2].in.req

----------------------------------------------------------------------------
(* C19 *)

\* the requests that were emitted and whose result is not reported yet
InTransit == Len(emitted) - Len(ReportedReqs)

----------------------------------------------------------------------------
(* C20 *)

\* this step is the reporter calling add_url for the request of the result
\* it receives
AddUrlCalled ==
  /\ ReporterTakes({"URLNotFound", "ParseError"})
  /\ Head(printq).req.init_time < now - TOO_OLD_HOURS

\* C20: MissingUrlDb is a set of URLs. A URL is in it iff it was added:
\* add_url succeeds and leaves the URL in the set, also when the URL was in
\* it before, it never changes whether another URL is in the set, and
\* nothing but add_url changes the set.
C20_MissingUrlDbIsASet ==
  [][IF AddUrlCalled
       THEN LET url == Head(printq).req.url
            IN  /\ mainPc' = "loop"
                /\ url \in missing'
                /\ missing' \ {url} = missing \ {url}
       ELSE missing' = missing]_vars

----------------------------------------------------------------------------
(* C21 *)

\* C21: AutoDownloadListDb is a set of station numbers. Every add_site and
\* every remove_site succeeds, also add_site of a listed station and
\* remove_site of an absent one; after add_site(stn) the station is reported
\* by is_auto_downloaded and get_list holds it exactly once; after
\* remove_site(stn) it is reported by neither; no station is ever listed
\* twice; and a call for one station changes nothing for another.
C21_AutoDownloadListIsASet ==
  /\ \A s \in AutoStations : CopiesIn(s, GetList(autoDl)) <= 1
  /\ autoCall # NoCall =>
       /\ autoCall.ok
       /\ autoCall.op = "add_site" =>
            /\ IsAutoDownloaded(autoDl, autoCall.stn)
            /\ CopiesIn(autoCall.stn, GetList(autoDl)) = 1
       /\ autoCall.op = "remove_site" =>
            /\ ~IsAutoDownloaded(autoDl, autoCall.stn)
            /\ ~BagIn(autoCall.stn, GetList(autoDl))
       /\ \A o \in AutoStations \ {autoCall.stn} :
            /\ CopiesIn(o, GetList(autoDl)) =
                 CopiesIn(o, GetList(autoCall.before))
            /\ IsAutoDownloaded(autoDl, o) =
                 IsAutoDownloaded(autoCall.before, o)

\* add_site was called for a station that was listed, next to another one
C21_Witness ==
  /\ autoCall # NoCall
  /\ autoCall.op = "add_site"
  /\ BagIn(autoCall.stn, autoCall.before)
  /\ BagToSet(autoCall.before) # {autoCall.stn}

----------------------------------------------------------------------------
(* C22 *)

\* C22: a build that follows another one on the same archive leaves the
\* climatology store as the build before it left it: the same rows with the
\* same values in fire, locations, inventory and max.
C22_SecondBuildChangesNothing ==
  climoPc = "done" /\ builds >= 2 => Store = store0

----------------------------------------------------------------------------
(* C23 *)

\* the run has a row in the fire table
Present(fireRows, init_time) ==
  \E r \in fireRows :
     /\ r.site = Upper[climoIn.site]
     /\ r.model = climoIn.model
     /\ r.valid_time = init_time

\* this step is the filter thread taking its next message
FilterTakes ==
  /\ builds' = builds
  /\ chan["filter_requests"] # <<>>
  /\ chan'["filter_requests"] = Tail(chan["filter_requests"])

\* the messages of a channel and those a thread is about to send to it
Bound(c) ==
  {chan[c][i] : i \in DOMAIN chan[c]} \cup
  UNION {{stage[s].out[i].msg : i \in {j \in DOMAIN stage[s].out :
                                         stage[s].out[j].to = c}} :
         s \in Stages}

----------------------------------------------------------------------------
(* C24 *)

\* the init times of the files the archive held when bufcli was started
Archive0 == {climoIn.files[k].init_time : k \in DOMAIN climoIn.files}

\* those of the files that are retrieved and do not parse
Unparsable ==
  {climoIn.files[k].init_time :
     k \in {j \in DOMAIN climoIn.files :
              /\ climoIn.files[j].retrieved
              /\ ~climoIn.files[j].anals.some}}

\* the number of parse errors of the file the monitoring loop has received
ParseErrorsOf(t) ==
  Cardinality({i \in DOMAIN monitor.data_errors :
                 monitor.data_errors[i] = DataError(t, "parse")})

\* C24: a file that fails to parse, and no other file, is removed from the
\* archive, and one DataError of it reaches the monitoring loop: every entry
\* that left the archive is a file that was retrieved and did not parse (a
\* file that parses, one that cannot be retrieved and one whose statistics
\* fail stay); a step that changes the archive is the parse error handler
\* removing the one file of the message it took and forwarding that message to
\* the error channel; and when build_climo returns Ok, every such file is
\* gone and the loop of the build that removed it received its DataError once
C24_ParseFailureRemovesTheFile ==
  /\ [](Archive0 \ climoArch \subseteq Unparsable)
  /\ [][climoArch' # climoArch =>
          /\ chan["parse_err"] # <<>>
          /\ LET msg == Head(chan["parse_err"])
             IN  /\ msg = DataError(msg.time, "parse")
                 /\ msg.time \in Unparsable \cap climoArch
                 /\ climoArch' = climoArch \ {msg.time}
                 /\ stage'["perr"].out = <<To("error", msg)>>]_vars
  /\ [](\A i \in DOMAIN monitor.data_errors :
          monitor.data_errors[i].err = "parse" =>
            monitor.data_errors[i].time \in Unparsable)
  /\ [](monitor.pc = "done" =>
          \A t \in Unparsable :
            /\ t \notin climoArch
            /\ ParseErrorsOf(t) = IF builds = 1 THEN 1 ELSE 0)

\* a build has ended: the file that did not parse is gone and was reported
\* once, the file that could not be retrieved and the one that parsed stay
C24_Witness ==
  /\ monitor.pc = "done"
  /\ builds = 1
  /\ Archive0 = {-36, -30, -24}
  /\ climoArch = {-36, -24}
  /\ ParseErrorsOf(-30) = 1
  /\ fire # {}

----------------------------------------------------------------------------
(* C25 *)

\* C25: a Haines index that cannot be computed is stored as 0 and the row is
\* still written; for an analysis whose HDW cannot be computed no fire row
\* is written, and the build goes on with the analyses and files that
\* follow: one HDW failure never aborts the build.
C25_HdwFailureIsSkipped ==
  /\ \A i \in DOMAIN fireLog :
       LET e == fireLog[i]
       IN  /\ e.anal.hdw.some
           /\ e.row.haines_low = UnwrapOr(e.anal.haines_low, 0)
           /\ e.row.haines_mid = UnwrapOr(e.anal.haines_mid, 0)
           /\ e.row.haines_high = UnwrapOr(e.anal.haines_high, 0)
  /\ climoPc # "failed"

----------------------------------------------------------------------------
(* C26 *)

\* the analyses of a file that lie within one cycle of the model
WithinCycle(f, model) ==
  {k \in DOMAIN f.anals.v :
     /\ f.anals.v[k].lead_time.some
     /\ f.anals.v[k].lead_time.v < HoursBetweenRuns(model)}

\* the entries of the log that belong to a file
RowsOfFile(log, f) == {i \in DOMAIN log : log[i].init_time = f.init_time}

\* C26: fire rows are written for exactly the analyses of a parsed file
\* whose lead time is strictly less than hours_between_runs(model), none
\* for an analysis with a larger lead time, and the number of fire rows of
\* a file is the number of its analyses within one cycle.
C26_OneCyclePerFile ==
  /\ \A i \in DOMAIN fireLog :
       /\ fireLog[i].anal.lead_time.some
       /\ fireLog[i].anal.lead_time.v < HoursBetweenRuns(climoIn.model)
  /\ climoPc = "done" =>
       \A k \in DOMAIN climoIn.files :
          LET f == climoIn.files[k]
          IN  RowsOfFile(fireLog, f) # {} =>
                Cardinality(RowsOfFile(fireLog, f)) =
                  Cardinality(WithinCycle(f, climoIn.model))

----------------------------------------------------------------------------
(* C27 *)

\* C27: a location record is written only for an analysis whose lead time
\* is known and equal to 0.
C27_LocationOnlyAtLeadTimeZero ==
  \A i \in DOMAIN fireLog :
     fireLog[i].location =>
       /\ fireLog[i].anal.lead_time.some
       /\ fireLog[i].anal.lead_time.v = 0

----------------------------------------------------------------------------
(* C28 *)

\* C28: during a run of the pipeline every mutation of the climatology store
\* is made by the writer thread: none is made by the filter, the loader, the
\* parser, the statistics threads or the parse error handler
C28_OnlyTheWriterMutatesTheStore ==
  \A i \in DOMAIN csLog : csLog[i].by = "writer"

----------------------------------------------------------------------------
(* C29 *)

\* C29: the pipeline terminates by the cascade of channel closures, also when
\* a thread stopped early on a critical error: once the enumerator has sent
\* its last message and returned, every thread eventually returns, the
\* completion channel and the error channel reach their end, the monitoring
\* loop ends and the joins return
C29_TerminatesByClosureCascade ==
  stage["entry"].pc = "done" ~>
    /\ monitor.pc = "done"
    /\ monitor.pipeline_done /\ monitor.error_done
    /\ \A s \in Stages : Exited(s)

----------------------------------------------------------------------------
(* C30 *)

\* C30: year, month, day and hour of a fire row are the components of the
\* valid time of the row in the local time of the site, which is the valid
\* time shifted by the UTC offset of the site, 0 for a site without one.
C30_FireRowInLocalTime ==
  \A i \in DOMAIN fireLog :
     LET e == fireLog[i]
         c == Components(e.valid_time + UtcOffset(e.row.site))
     IN  <<e.row.year, e.row.month, e.row.day, e.row.hour>> =
           <<c.year, c.month, c.day, c.hour>>


----------------------------------------------------------------------------
(* C31 *)

\* C31: the fire summary that is returned has exactly 366 rows, one for each
\* calendar day of the year in order, February 29 among them, and every row
\* carries its sample count, the number of daily rows of its window
C31_SummaryHas366Rows ==
  summary.pc = "ok" =>
    /\ Len(summary.to_return) = 366
    /\ \E i \in DOMAIN summary.to_return :
         summary.to_return[i].month = 2 /\ summary.to_return[i].day = 29
    /\ \A i \in DOMAIN summary.to_return :
         summary.to_return[i].num_samples >= 1

----------------------------------------------------------------------------
(* C32 *)

\* the tree holds an archive that connects
Initialised(tree) == tree.dir /\ tree.index = "valid"

\* an archive without files and with nothing beside it
FreshArchive ==
  [dir |-> TRUE, index |-> "valid", files |-> {}, blobs |-> {}, others |-> {}]

\* C32: bkam create at a root that is already initialised: without --force it
\* returns an error and leaves the index, the data files and everything else
\* at the root as they were; with --force the root is removed and a fresh
\* empty archive is made in its place; and nothing that was at the root is
\* ever removed by a call without --force
C32_CreateRejectsInitialisedRoot ==
  createCall.n > 0 =>
    /\ Initialised(createCall.before) =>
         IF createCall.force
           THEN createCall.ok /\ root = FreshArchive
           ELSE ~createCall.ok /\ root = createCall.before
    /\ ~createCall.force =>
         /\ createCall.before.files \subseteq root.files
         /\ createCall.before.blobs \subseteq root.blobs
         /\ createCall.before.others \subseteq root.others

\* create without --force was refused on an archive that holds files and a
\* climatology store, after a call with --force had made it anew or not
C32_Witness ==
  /\ createCall.n > 0
  /\ ~createCall.force
  /\ ~createCall.ok
  /\ Initialised(createCall.before)
  /\ createCall.before.files # {}
  /\ "climo" \in createCall.before.others
  /\ root = createCall.before

----------------------------------------------------------------------------
(* C33 *)

\* the runs of the site and model that the archive of bkam export holds
Archived == Inventory(exportIn.files, 727730, exportIn.model)

\* C33: bkam export with --start and without --end, on an archive whose last
\* run of the site and model is not before the start time, ends well and has
\* exported every archived run of the site and model from the start time to
\* the most recent one
C33_ExportWithoutEndGoesToLastRun ==
  /\ exportIn.start.some
  /\ ~exportIn.end.some
  /\ \E t \in Archived : t >= exportIn.start.v
  /\ exportRun.pc \in {"ok", "err"}
  => /\ exportRun.pc = "ok"
     /\ {exportRun.saved[i].init_time : i \in DOMAIN exportRun.saved} =
          {t \in Archived : t >= exportIn.start.v}

----------------------------------------------------------------------------
(* C34 *)

\* C34: the reporter never calls add_url for a URL that MissingUrlDb holds
\* already, under any interleaving of the threads, also when two requests of
\* the run have the same URL: whenever it records the URL of a result, that
\* URL is not in the set
C34_NoInsertOfPresentUrl ==
  [][AddUrlCalled => Head(printq).req.url \notin missing]_vars

----------------------------------------------------------------------------
(* C35 *)

\* C35: when the reporter receives Success(req), the archive holds an entry
\* of the site and model of the request at exactly req.init_time; and the
\* persister stores a file under no init time but the one of the request:
\* every row that a step with the outcome Success adds to the index has the
\* init time of the request
C35_SuccessMeansArchivedAtRequestedTime ==
  /\ [][ReporterTakes({"Success"}) =>
          LET req == Head(printq).req
          IN  \E r \in files :
                 /\ r.stn \in StationNumForId(ids, req.site_id, req.model)
                 /\ r.model = req.model
                 /\ r.init_time = req.init_time]_vars
  /\ [][PersisterProduces({"Success"}) =>
          \A r \in files' \ files :
             r.init_time = handled'[Len(handled')].in.req.init_time]_vars

----------------------------------------------------------------------------
(* C36 *)

\* the valid times of the first cycle of a file of the archive: those of
\* its analyses that lie before the init_time of the next run of the model
FirstCycle(f, model) ==
  {f.anals.v[k].valid_time.v : k \in
     {j \in DOMAIN f.anals.v :
        /\ f.anals.v[j].valid_time.some
        /\ f.anals.v[j].valid_time.v < f.init_time + HoursBetweenRuns(model)}}

\* the store has a fire row of this site and model at the valid time
InFire(site, model, valid_time) ==
  \E r \in fire :
     /\ r.site = site
     /\ r.model = model
     /\ <<r.year, r.month, r.day, r.hour>> =
          LET c == Components(valid_time)
          IN  <<c.year, c.month, c.day, c.hour>>

\* C36: after an incremental update that returned Ok, every file of the
\* archive that can be retrieved and parsed has the valid times of its first
\* cycle in the fire table of the store, also a file that was added to the
\* archive after an earlier update with an init_time inside the range the
\* store already covered.
C36_FilledGapIsNotSkipped ==
  climoPc = "done" =>
     \A k \in DOMAIN climoIn.files :
        LET f == climoIn.files[k]
        IN  (f.retrieved /\ f.anals.some) =>
               \A vt \in FirstCycle(f, climoIn.model) :
                  InFire(Upper[climoIn.site], climoIn.model, vt)

----------------------------------------------------------------------------
(* C37 *)

\* the year, month, day and hour of a fire row and of a time, as one tuple
\* that orders as time does
RowClock(r) == <<r.year, r.month, r.day, r.hour>>

Clock(t) == LET c == Components(t) IN <<c.year, c.month, c.day, c.hour>>

\* a <= b for two such tuples
NotAfter(a, b) ==
  \/ a = b
  \/ \E k \in 1..4 : a[k] < b[k] /\ \A j \in 1..(k - 1) : a[j] = b[j]

\* the fire rows of the site and model of the build
FireOfBuild ==
  {r \in fire : r.site = Upper[climoIn.site] /\ r.model = climoIn.model}

InventoryOfBuild ==
  {r \in inventory : r.site = Upper[climoIn.site] /\ r.model = climoIn.model}

MaxOfBuild ==
  {r \in maxRows : r.site = Upper[climoIn.site] /\ r.model = climoIn.model}

\* C37: after every run of build_climo, also one that found nothing new, an
\* empty archive, or that returned an error part-way, the inventory row has
\* start_date <= end_date and its range holds the valid time of every fire
\* row of the site and model, and max.hdw is at least the hdw of every such
\* fire row.
C37_BookkeepingMatchesFire ==
  climoPc \in {"done", "failed"} =>
     /\ \A i \in InventoryOfBuild :
           /\ i.start_date <= i.end_date
           /\ \A r \in FireOfBuild :
                 /\ NotAfter(Clock(i.start_date), RowClock(r))
                 /\ NotAfter(RowClock(r), Clock(i.end_date))
     /\ \A m \in MaxOfBuild : \A r \in FireOfBuild : m.hdw >= r.hdw
     /\ FireOfBuild # {} => (InventoryOfBuild # {} /\ MaxOfBuild # {})

----------------------------------------------------------------------------
(* C38 *)

\* a record of the statistics stages is still on its way to the writer
PendingForWriter ==
  \/ chan["stats"] # <<>>
  \/ \E s \in Stages : \E k \in DOMAIN stage[s].out :
        stage[s].out[k].to = "stats"

\* the store holds what the record says
Applied(msg, fireRows, locationRows) ==
  IF msg.kind = "Fire"
    THEN \E r \in fireRows :
            /\ r.site = Upper[climoIn.site]
            /\ r.model = climoIn.model
            /\ r.valid_time = msg.valid_time
            /\ r.hdw = msg.hdw
            /\ <<r.haines_high, r.haines_mid, r.haines_low>> =
                 <<msg.hns_high, msg.hns_mid, msg.hns_low>>
    ELSE \E r \in locationRows :
            /\ r.site = Upper[climoIn.site]
            /\ r.model = climoIn.model
            /\ r.loc = msg.loc

\* the writer takes the next record off its queue
WriterTakes ==
  /\ Running
  /\ chan["stats"] # <<>>
  /\ chan'["stats"] = Tail(chan["stats"])

\* C38: the monitoring loop of build_climo cannot end before the writer
\* thread has consumed its whole queue and returned without an error, so when
\* build_climo returns Ok no record of the statistics stages is pending; and
\* a record the writer takes off its queue is in the store after that step,
\* unless the write fails and the writer bails out (the build then does not
\* return Ok).
C38_NothingPendingAtReturn ==
  /\ [](monitor.pc \in {"join", "done"} =>
          /\ stage["writer"].pc = "done"
          /\ ~PendingForWriter)
  /\ [][WriterTakes =>
          \/ Applied(Head(chan["stats"]), fire', locations')
          \/ stage'["writer"].pc = "bail"]_vars

\* a build has returned Ok after the writer applied a fire record and a
\* location record
C38_Witness ==
  /\ monitor.pc = "done"
  /\ \E i \in DOMAIN csLog : csLog[i].op = "add_fire"
  /\ \E i \in DOMAIN csLog : csLog[i].op = "add_location"
  /\ fire # {}
  /\ locations # {}

----------------------------------------------------------------------------
(* C39 *)

\* bufdn and bufcli are two programs: a behaviour is a run of the one or of
\* the other
InitPipelines == Init \/ InitBuild

NextPipelines == Next \/ NextBuild

SpecPipelines == InitPipelines /\ [][NextPipelines]_vars

\* main.rs:63-93: the variants the match of the reporter has an arm for
ReporterArms ==
  {"URLNotFound", "ParseError", "OtherURLStatus", "OtherDownloadError",
   "ArchiveError", "Success", "InitializationError"}

\* builder.rs:225-236, 268-283, 309-346, 372-414, 440-476: the variant the
\* loop of the thread that reads the channel has an arm for
StageArm ==
  [c \in {"filter_requests", "load_requests", "parse_requests",
          "fire_requests", "loc_requests", "comp_notify"} |->
     CASE c = "filter_requests" -> "Filter"
       [] c = "load_requests"   -> "Load"
       [] c = "parse_requests"  -> "Parse"
       [] c = "fire_requests"   -> "Fire"
       [] c = "loc_requests"    -> "Location"
       [] OTHER                 -> "Completed"]

\* C39: no unreachable!() arm is reached in either pipeline: every result
\* on its way to the download reporter, and every result it has taken, is of
\* a variant its match handles (never Request, BufkitFileAsString or
\* MissingUrlDbError) and the reporter has not panicked; every message on the
\* channel of a climatology stage is of the one variant the stage expects,
\* and so is every message on the completion channel of the monitor.
C39_NoUnreachableArm ==
  /\ mainPc # "panicked"
  /\ \A i \in DOMAIN printq : printq[i].kind \in ReporterArms
  /\ \A i \in DOMAIN reported : reported[i].kind \in ReporterArms
  /\ \A c \in DOMAIN StageArm :
        \A i \in DOMAIN chan[c] : chan[c][i].kind = StageArm[c]

\* the reporter has taken a Success, a 404 and another HTTP status and has
\* left its loop
C39_Witness ==
  /\ mainPc = "done"
  /\ \E i, j, k \in DOMAIN reported :
        /\ reported[i].kind = "Success"
        /\ reported[j].kind = "URLNotFound"
        /\ reported[k].kind = "OtherURLStatus"

----------------------------------------------------------------------------
(* C40 *)

\* the run is one for which upstream files KLDN under the id KDLN
KldnRenamed(model, init_time) ==
  IF model = "GFS" THEN init_time >= KldnGfsRename
                   ELSE init_time >= KldnNamRename

\* C40: the rewrite of KLDN to KDLN is applied to a request for that site
\* whatever letter case the id has when it reaches the adapter, the lower
\* case of an id of --sites included: every request made for the site and a
\* run of the rename window has the url of KDLN.
C40_KldnRewrittenInAnyCase ==
  \A i \in DOMAIN emitted :
     LET r == emitted[i]
     IN  (Lower[r.site_id] \in {"kldn", "kdln"}
            /\ KldnRenamed(r.model, r.init_time)) =>
            r.url.site = "kdln"

============================================================================
